---- MODULE Spec2Model ----
(***************************************************************************)
(* Script-to-audio pipeline of the podcast backend:                        *)
(*   services/script_processor.py  ScriptProcessor (parse_script,          *)
(*     detect_speakers_and_assign_voices, generate_audio_segments,         *)
(*     combine_audio_segments, process_script)                             *)
(*   routes/audio_generation.py    generate_audio_route,                   *)
(*     _generate_dummy_audio, progress_data                                *)
(* Text is modelled as a sequence of one-character strings, so that the    *)
(* regular expressions, strip(), lower() and split() of the parser are     *)
(* computed character by character.                                        *)
(***************************************************************************)
EXTENDS Integers, Sequences, FiniteSets, TLC

----------------------------------------------------------------------------
(* Bounds of the model *)

\* longest generated transcript, in lines (the scenario transcripts are longer)
MaxLines == 2
\* longest generated transcript of the parser's specification, in lines
MaxParseLines == 3
\* largest set of speakers of which every listing is enumerated; of a larger
\* set only the rotations of two listings are
MaxShuffled == 4

----------------------------------------------------------------------------
(* Characters and strings *)

NL == "\n"

UpperChars == <<"A","B","C","D","E","F","G","H","I","J","K","L","M",
                "N","O","P","Q","R","S","T","U","V","W","X","Y","Z">>
LowerChars == <<"a","b","c","d","e","f","g","h","i","j","k","l","m",
                "n","o","p","q","r","s","t","u","v","w","x","y","z">>

\* str.lower() on one character
LowerChar(c) ==
    IF \E k \in 1..Len(UpperChars) : UpperChars[k] = c
    THEN LowerChars[CHOOSE k \in 1..Len(UpperChars) : UpperChars[k] = c]
    ELSE c

\* str.lower()
Lower(s) == [k \in 1..Len(s) |-> LowerChar(s[k])]

\* the characters str.strip() removes and \s matches
IsSpace(c) == c \in {" ", "\t", NL, "\r"}

\* str.strip()
Strip(s) ==
    LET keep == {k \in 1..Len(s) : ~IsSpace(s[k])}
    IN  IF keep = {} THEN <<>>
        ELSE LET lo == CHOOSE k \in keep : \A m \in keep : k <= m
                 hi == CHOOSE k \in keep : \A m \in keep : k >= m
             IN  SubSeq(s, lo, hi)

\* `sub in s`
Contains(s, sub) ==
    \E p \in 0..(Len(s) - Len(sub)) :
        \A k \in 1..Len(sub) : s[p + k] = sub[k]

\* str.startswith
StartsWith(s, pre) ==
    /\ Len(pre) <= Len(s)
    /\ \A k \in 1..Len(pre) : s[k] = pre[k]

\* str.split('\n')
RECURSIVE SplitLines(_)
SplitLines(s) ==
    LET nls == {k \in 1..Len(s) : s[k] = NL}
    IN  IF nls = {} THEN <<s>>
        ELSE LET p == CHOOSE k \in nls : \A m \in nls : k <= m
             IN  <<SubSeq(s, 1, p - 1)>> \o SplitLines(SubSeq(s, p + 1, Len(s)))

\* sep.join(parts)
RECURSIVE Join(_, _)
Join(parts, sep) ==
    IF parts = <<>> THEN <<>>
    ELSE IF Len(parts) = 1 THEN parts[1]
    ELSE parts[1] \o sep \o Join(Tail(parts), sep)

Min(S) == CHOOSE x \in S : \A y \in S : x <= y
Max(S) == CHOOSE x \in S : \A y \in S : x >= y

----------------------------------------------------------------------------
(* parse_script *)

\* re.search(r'</[^>]+>', content): positions p where a match starts
ClosingTagStarts(content) ==
    {p \in 1..Len(content) :
        /\ p + 3 <= Len(content)
        /\ content[p] = "<" /\ content[p + 1] = "/"
        /\ content[p + 2] # ">"
        /\ \E q \in (p + 3)..Len(content) : content[q] = ">"}

\* position of the ">" that ends the first match (closing_tag_match.end() - 1)
ClosingTagEnd(content) ==
    LET p == Min(ClosingTagStarts(content))
    IN  Min({q \in (p + 3)..Len(content) : content[q] = ">"})

\* mutant of StripClosingTag: the closing tag is not looked for
StripClosingTag_Never(content) == content

\* lines 132-136: skip everything before and including the closing tag
StripClosingTag(content) ==
    IF ClosingTagStarts(content) # {}
    THEN Strip(SubSeq(content, ClosingTagEnd(content) + 1, Len(content)))
    ELSE content

IsBracket(c) == c \in {"[", "]"}

\* positions j of the "]" of a "]:" that can close a leading "[" (r'^\[(.*?)\]:')
BracketCloses(line) ==
    {j \in 2..(Len(line) - 1) :
        line[1] = "[" /\ line[j] = "]" /\ line[j + 1] = ":"}

\* positions p of a ":" preceded by one or more non-bracket characters
\* (r'^([^\[\]]+):')
PlainColons(line) ==
    {p \in 2..Len(line) :
        line[p] = ":" /\ \A k \in 1..(p - 1) : ~IsBracket(line[k])}

\* line 143: re.search(r'^\[.*?\]:|^[^\[\]]+:', line.strip())
LooksLikeDialogue(line) ==
    LET l == Strip(line)
    IN  BracketCloses(l) # {} \/ PlainColons(l) # {}

\* mutant of SkipToFirstDialogue: start_idx is one past the first dialogue line
SkipToFirstDialogue_OnePast(content) ==
    LET lines == SplitLines(content)
        hits  == {k \in 1..Len(lines) : LooksLikeDialogue(lines[k])}
    IN  IF hits # {}
        THEN Join(SubSeq(lines, Min(hits) + 1, Len(lines)), <<NL>>)
        ELSE content

\* lines 139-150: drop the lines before the first dialogue line
SkipToFirstDialogue(content) ==
    LET lines == SplitLines(content)
        hits  == {k \in 1..Len(lines) : LooksLikeDialogue(lines[k])}
    IN  IF hits # {} /\ Min(hits) > 1
        THEN Join(SubSeq(lines, Min(hits), Len(lines)), <<NL>>)
        ELSE content

\* line 179: re.match(r'^\[(.*?)\]:\s*(.*)|^([^\[\]]+):\s*(.*)', line) and
\* lines 190-195: the stripped label and the stripped text of the match.
\* The lazy (.*?) stops at the first "]:", the greedy [^\[\]]+ at the last ":"
\* that no bracket precedes.
speaker_match(line) ==
    IF BracketCloses(line) # {}
    THEN LET j == Min(BracketCloses(line))
         IN  [ok |-> TRUE,
              speaker |-> Strip(SubSeq(line, 2, j - 1)),
              text |-> Strip(SubSeq(line, j + 2, Len(line)))]
    ELSE IF PlainColons(line) # {}
    THEN LET p == Max(PlainColons(line))
         IN  [ok |-> TRUE,
              speaker |-> Strip(SubSeq(line, 1, p - 1)),
              text |-> Strip(SubSeq(line, p + 1, Len(line)))]
    ELSE [ok |-> FALSE, speaker |-> <<>>, text |-> <<>>]

\* line 198
metadata_keywords ==
    { <<"t","i","t","l","e">>,
      <<"g","u","e","s","t">>,
      <<"t","o","n","e">>,
      <<"l","e","n","g","t","h">>,
      <<"f","o","r","m","a","t">>,
      <<"t","o","p","i","c">>,
      <<"d","e","s","i","r","e","d">>,
      <<"i","n","c","l","u","d","e">>,
      <<"c","o","n","v","e","r","s","a","t","i","o","n","a","l">> }

\* line 200: longest speaker name that is not taken for metadata
MaxSpeakerLen == 30

\* mutant of IsMetadataSpeaker: a name of 30 characters is taken for metadata too
IsMetadataSpeaker_From30(speaker) ==
    \/ \E kw \in metadata_keywords : Contains(Lower(speaker), kw)
    \/ Len(speaker) >= MaxSpeakerLen

\* lines 199-200
IsMetadataSpeaker(speaker) ==
    \/ \E kw \in metadata_keywords : Contains(Lower(speaker), kw)
    \/ Len(speaker) > MaxSpeakerLen

\* mutant of IsCommentLine: only '#' marks a comment
IsCommentLine_HashOnly(line) == StartsWith(line, <<"#">>)

\* line 174
IsCommentLine(line) ==
    \/ StartsWith(line, <<"#">>)
    \/ StartsWith(line, <<"/", "/">>)
    \/ StartsWith(line, <<"/", "*">>)

\* current_speaker = None; None and "" are both falsy and the code only tests
\* truthiness, so one value stands for both
NoSpeaker == <<>>

Utterance(speaker, parts) == [speaker |-> speaker, text |-> Join(parts, <<" ">>)]

\* mutant of Flush: only current_text is tested
Flush_AnySpeaker(st) ==
    IF st.current_text # <<>>
    THEN Append(st.conversation, Utterance(st.current_speaker, st.current_text))
    ELSE st.conversation

\* `if current_speaker and current_text: conversation.append(...)`
Flush(st) ==
    IF st.current_speaker # NoSpeaker /\ st.current_text # <<>>
    THEN Append(st.conversation, Utterance(st.current_speaker, st.current_text))
    ELSE st.conversation

\* mutant of ParseLine: a blank line also forgets the current speaker
ParseLine_BlankForgetsSpeaker(st, rawline) ==
    LET line == Strip(rawline)
        m    == speaker_match(line)
    IN  IF line = <<>>
        THEN [conversation |-> Flush(st),
              current_speaker |-> NoSpeaker,
              current_text |-> <<>>]
        ELSE IF IsCommentLine(line) THEN st
        ELSE IF m.ok
        THEN IF IsMetadataSpeaker(m.speaker)
             THEN [conversation |-> Flush(st),
                   current_speaker |-> NoSpeaker,
                   current_text |-> <<>>]
             ELSE [conversation |-> Flush(st),
                   current_speaker |-> m.speaker,
                   current_text |-> IF m.text # <<>> THEN <<m.text>> ELSE <<>>]
        ELSE IF st.current_speaker # NoSpeaker
        THEN [st EXCEPT !.current_text = Append(st.current_text, line)]
        ELSE st

\* lines 161-209: the body of the loop for one line
ParseLine(st, rawline) ==
    LET line == Strip(rawline)
        m    == speaker_match(line)
    IN  IF line = <<>>
        THEN [st EXCEPT !.conversation = Flush(st),
                        !.current_text =
                            IF st.current_speaker # NoSpeaker /\ st.current_text # <<>>
                            THEN <<>> ELSE st.current_text]
        ELSE IF IsCommentLine(line) THEN st
        ELSE IF m.ok
        THEN IF IsMetadataSpeaker(m.speaker)
             THEN [conversation |-> Flush(st),
                   current_speaker |-> NoSpeaker,
                   current_text |-> <<>>]
             ELSE [conversation |-> Flush(st),
                   current_speaker |-> m.speaker,
                   current_text |-> IF m.text # <<>> THEN <<m.text>> ELSE <<>>]
        ELSE IF st.current_speaker # NoSpeaker
        THEN [st EXCEPT !.current_text = Append(st.current_text, line)]
        ELSE st

RECURSIVE ParseLines(_, _)
ParseLines(st, lines) ==
    IF lines = <<>> THEN st
    ELSE ParseLines(ParseLine(st, Head(lines)), Tail(lines))

\* lines 124-219. readable = FALSE: open() raises and [] is returned (151-153)
parse_script(readable, content) ==
    IF ~readable THEN <<>>
    ELSE LET stripped == SkipToFirstDialogue(StripClosingTag(content))
             st0 == [conversation |-> <<>>,
                     current_speaker |-> NoSpeaker,
                     current_text |-> <<>>]
         IN  Flush(ParseLines(st0, SplitLines(stripped)))

----------------------------------------------------------------------------
(* Transcripts *)

\* the lines transcripts are made of
LinePool ==
    << <<"[","H","o","s","t","]",":"," ","W","e","l","c","o","m","e",".">>,
       <<>>,
       <<"[","G","u","e","s","t","]",":"," ","T","h","a","n","k","s"," ","f","o","r"," ","h","a","v","i","n","g"," ","m","e",".">>,
       <<"[","H","o","s","t","]",":"," ","L","e","t","'","s"," ","b","e","g","i","n",".">>,
       <<"<","p","l","a","n",">","s","o","m","e"," ","p","l","a","n","n","i","n","g"," ","n","o","t","e","s","<","/","p","l","a","n",">">>,
       <<"[","A","]",":"," ","H","i">>,
       <<"[","B","]",":"," ","H","e","l","l","o">>,
       <<"T","o","n","e",":"," ","f","o","r","m","a","l"," ","a","n","d"," ","f","r","i","e","n","d","l","y">>,
       <<"[","C","]",":"," ","H","e","y">>,
       <<"m","o","r","e">>,
       <<"[","D","]",":"," ","H","e","y">>,
       <<"[","E","]",":"," ","H","e","y">>,
       <<"[","F","]",":"," ","H","e","y">>,
       <<"[","G","]",":"," ","H","e","y">>,
       <<"[","H","]",":"," ","H","e","y">>,
       <<"[","I","]",":"," ","H","e","y">>,
       <<"[","J","]",":"," ","H","e","y">>,
       <<"[","K","]",":"," ","H","e","y">>,
       <<"[","L","]",":"," ","H","e","y">>,
       <<"[","D","r"," ","A","l","e","x","a","n","d","r","a"," ","M","o","n","t","g","o","m","e","r","y","-","S","m","y","t","h","e","]",":"," ","G","o","o","d"," ","e","v","e","n","i","n","g">>,
       <<"[","D","r"," ","A","l","e","x","a","n","d","r","a"," ","M","o","n","t","g","o","m","e","r","y","-","S","m","y","t","h","e","s","]",":"," ","G","o","o","d"," ","e","v","e","n","i","n","g">>,
       <<"#"," ","n","o","t","e">>,
       <<"/","/"," ","a","s","i","d","e",":"," ","r","e","m","a","r","k">>,
       <<"/","*"," ","<","/","c",">"," ","*","/">>,
       <<"S","a","m",":"," ","N","o","t","e",":"," ","b","r","i","n","g"," ","w","a","t","e","r">>,
       <<"[","A","]",":">>,
       <<"[","]",":"," ","t","e","x","t">> >>

\* spec.md, Scenario A: [Host]: Welcome. / blank / [Guest]: ... / blank / [Host]: Let's begin.
ScenarioA == <<1, 2, 3, 2, 4>>
\* Scenario B: <plan>some planning notes</plan> / [A]: Hi / [B]: Hello
ScenarioB == <<5, 6, 7>>
\* Scenario C: a line "Tone: formal and friendly" inside the dialogue
ScenarioC == <<6, 8, 7>>
\* Scenario D: five utterances
ScenarioD == <<6, 7, 6, 7, 6>>
\* three distinct speakers
ThreeSpeakers == <<6, 7, 9>>

\* the lines generated transcripts draw from: [A]: Hi, [B]: Hello, [C]: Hey,
\* a blank line and a continuation line
GenLines == {6, 7, 9, 2, 10}

RECURSIVE SeqsUpTo(_, _)
SeqsUpTo(S, n) ==
    IF n = 0 THEN {<<>>}
    ELSE LET shorter == SeqsUpTo(S, n - 1)
         IN  shorter \cup {Append(s, x) : s \in {t \in shorter : Len(t) = n - 1}, x \in S}

Scripts ==
    {ScenarioA, ScenarioB, ScenarioC, ScenarioD, ThreeSpeakers}
        \cup SeqsUpTo(GenLines, MaxLines)

\* eleven and twelve distinct speakers, [A] to [K] and [A] to [L]: more than
\* the ten voices of available_voices
ElevenSpeakers == <<6, 7, 9, 11, 12, 13, 14, 15, 16, 17, 18>>
TwelveSpeakers == <<6, 7, 9, 11, 12, 13, 14, 15, 16, 17, 18, 19>>
\* a label of exactly 30 characters (line 20) and one of 31 (line 21) between
\* two turns, each followed by a continuation line
Label30 == <<6, 20, 10, 7>>
Label31 == <<6, 21, 10, 7>>

\* the lines the transcripts of the parser's specification draw from: a blank
\* line, a line with a closing tag, [A]: Hi, [B]: Hello, the metadata line
\* "Tone: formal and friendly" and a continuation line
ParseGenLines == {2, 5, 6, 7, 8, 10}

\* comment lines: "# note", "// aside: remark" and "/* </c> */", the last
\* with a closing tag inside
CommentLines == {22, 23, 24}

\* transcript scr with line id put in after its first p lines
InsertLine(scr, p, id) == SubSeq(scr, 1, p) \o <<id>> \o SubSeq(scr, p + 1, Len(scr))

\* a comment line at any position of a transcript of blank lines, [A]: Hi,
\* [B]: Hello and continuation lines
CommentScripts ==
    UNION {{InsertLine(base, p, c) : p \in 0..Len(base), c \in CommentLines} :
              base \in SeqsUpTo({2, 6, 7, 10}, MaxLines)}

\* transcripts with the line "Sam: Note: bring water": an unbracketed speaker
\* line with a second colon in its text
ColonScripts == SeqsUpTo({6, 10, 25}, MaxParseLines)

\* transcripts with "[A]:", a speaker line without text, and "[]: text", a
\* speaker line with an empty label
EmptyTurnScripts == SeqsUpTo({2, 7, 10, 26, 27}, MaxParseLines)

ParseScripts ==
    {ScenarioA, ScenarioB, ScenarioC, ScenarioD, ThreeSpeakers,
     ElevenSpeakers, TwelveSpeakers, Label30, Label31}
        \cup SeqsUpTo(ParseGenLines, MaxParseLines)
        \cup CommentScripts \cup ColonScripts \cup EmptyTurnScripts

\* the text of a transcript: its lines joined by newlines
Content(scr) == Join([k \in 1..Len(scr) |-> LinePool[scr[k]]], <<NL>>)

----------------------------------------------------------------------------
(* Voices *)

\* lines 48-62; Python index k is available_voices[k + 1]
available_voices ==
    << [id |-> "694f9389-aac1-45b6-b726-9d9369183238", gender |-> "male"],
       [id |-> "a0e99841-438c-4a64-b679-ae501e7d6091", gender |-> "male"],
       [id |-> "d46abd1d-2d02-43e8-819f-51fb652c1c61", gender |-> "male"],
       [id |-> "f146dcec-e481-45be-8ad2-96e1e40e7f32", gender |-> "male"],
       [id |-> "34575e71-908f-4ab6-ab54-b08c95d6597d", gender |-> "male"],
       [id |-> "bf991597-6c13-47e4-8411-91ec2de5c466", gender |-> "female"],
       [id |-> "00a77add-48d5-4ef6-8157-71e5437b282d", gender |-> "female"],
       [id |-> "156fb8d2-335b-4950-9cb3-a2d33befec77", gender |-> "female"],
       [id |-> "b7d50908-b17c-442d-ad8d-810c63997ed9", gender |-> "female"],
       [id |-> "71a7ad14-091c-4e8e-a314-022ece01c121", gender |-> "female"] >>

\* self.available_voices[k]["id"]
Palette(k) == available_voices[k + 1].id

GenderOf(voice_id) ==
    (CHOOSE v \in {available_voices[k] : k \in 1..Len(available_voices)} :
        v.id = voice_id).gender

\* line 78: set(item["speaker"] for item in conversation)
unique_speakers(conv) == {conv[k].speaker : k \in 1..Len(conv)}

\* list(unique_speakers): a set of str iterates in hash order, which differs
\* from one interpreter process to the next, so every listing is possible
Listings(S) ==
    {o \in [1..Cardinality(S) -> S] :
        \A a, b \in 1..Cardinality(S) : a # b => o[a] # o[b]}

\* the distinct speakers of a conversation in the order of their first utterance
RECURSIVE FirstAppearance(_)
FirstAppearance(conv) ==
    IF conv = <<>> THEN <<>>
    ELSE LET before == FirstAppearance(SubSeq(conv, 1, Len(conv) - 1))
             last   == conv[Len(conv)].speaker
         IN  IF \E k \in 1..Len(before) : before[k] = last
             THEN before
             ELSE Append(before, last)

\* the listing o taken from its position r + 1 on, wrapping around
Rotation(o, r) == [k \in 1..Len(o) |-> o[((k - 1 + r) % Len(o)) + 1]]

Reverse(o) == [k \in 1..Len(o) |-> o[Len(o) + 1 - k]]

\* the listings list(unique_speakers) is drawn from: every listing of a set of
\* at most MaxShuffled speakers; of a larger set the rotations of the order of
\* first appearance and of its reverse
ListingsOf(conv) ==
    IF Cardinality(unique_speakers(conv)) <= MaxShuffled
    THEN Listings(unique_speakers(conv))
    ELSE LET o == FirstAppearance(conv)
         IN  {Rotation(o, r) : r \in 0..(Len(o) - 1)}
                \cup {Rotation(Reverse(o), r) : r \in 0..(Len(o) - 1)}

\* mutant of detect_speakers_and_assign_voices: the second of two speakers gets
\* available_voices[1], a voice of the first one's category
detect_speakers_SameCategory(speakers) ==
    IF Len(speakers) = 1
    THEN [s \in {speakers[1]} |-> Palette(0)]
    ELSE IF Len(speakers) = 2
    THEN [s \in {speakers[1], speakers[2]} |->
            IF s = speakers[1] THEN Palette(0) ELSE Palette(1)]
    ELSE [s \in {speakers[k] : k \in 1..Len(speakers)} |->
            Palette(((CHOOSE k \in 1..Len(speakers) : speakers[k] = s) - 1)
                        % Len(available_voices))]

\* mutant of detect_speakers_and_assign_voices: with more than two speakers the
\* round robin starts at available_voices[1]
detect_speakers_OffByOne(speakers) ==
    IF Len(speakers) = 1
    THEN [s \in {speakers[1]} |-> Palette(0)]
    ELSE IF Len(speakers) = 2
    THEN [s \in {speakers[1], speakers[2]} |->
            IF s = speakers[1] THEN Palette(0) ELSE Palette(5)]
    ELSE [s \in {speakers[k] : k \in 1..Len(speakers)} |->
            Palette((CHOOSE k \in 1..Len(speakers) : speakers[k] = s)
                        % Len(available_voices))]

\* lines 82-101, with speakers = list(unique_speakers)
detect_speakers_and_assign_voices(speakers) ==
    IF Len(speakers) = 1
    THEN [s \in {speakers[1]} |-> Palette(0)]
    ELSE IF Len(speakers) = 2
    THEN [s \in {speakers[1], speakers[2]} |->
            IF s = speakers[1] THEN Palette(0) ELSE Palette(5)]
    ELSE [s \in {speakers[k] : k \in 1..Len(speakers)} |->
            Palette(((CHOOSE k \in 1..Len(speakers) : speakers[k] = s) - 1)
                        % Len(available_voices))]

\* mutant of VoiceFor: self.speaker_voice_mapping.get(speaker), without a default
VoiceFor_NoDefault(mapping, speaker) ==
    IF speaker \in DOMAIN mapping THEN mapping[speaker] ELSE "None"

\* mutant of VoiceFor: the voice map is not looked at
VoiceFor_MapIgnored(mapping, speaker) == Palette(0)

\* line 273: self.speaker_voice_mapping.get(speaker, self.available_voices[0]["id"])
VoiceFor(mapping, speaker) ==
    IF speaker \in DOMAIN mapping THEN mapping[speaker] ELSE Palette(0)

----------------------------------------------------------------------------
(* State *)

VARIABLES
    caller,                 \* "route": generate_audio_route; "cli": process_script called directly (script_processor.py 486-490, the test scripts)
    script,                 \* the transcript, as line numbers of LinePool
    readable,               \* whether open(script_path) succeeds
    outExt,                 \* the extension of the output_path the caller passes
    fs,                     \* the files at <output base>.mp3 and <output base>.wav
    pc,                     \* position of the run
    progress_data,          \* progress_data[podcast_id]
    written,                \* every snapshot stored under progress_data[podcast_id], in order
    cbLog,                  \* every snapshot process_script passed to its callback, in order
    conversation,           \* parse_script's result
    speaker_voice_mapping,  \* self.speaker_voice_mapping
    i,                      \* the loop index of generate_audio_segments
    segment_paths,          \* segment_paths, each path as [idx, ext]
    segFiles,               \* the files of the scratch directory, as [idx, ext, size]
    ttsCalls,               \* every client.tts.bytes call, in order, with its outcome
    scratchDir,             \* whether the directory of tempfile.mkdtemp() exists
    file_list,              \* the segments written to ffmpeg's file list (valid_segments)
    tmpList,                \* whether the file list of combine_audio_segments exists
    concat,                 \* what ffmpeg did in this run
    success,                \* combine_audio_segments' result (FALSE until it has run)
    ret,                    \* process_script's return value: "none" until it returns, then "True" or "False"
    scriptTmp,              \* whether the route's temporary script file exists
    audioUrl                \* what update_podcast_audio stored for the podcast

\* two requests served at the same time (the specification SpecConc)
VARIABLES
    runs,                   \* each request's own variables: the locals of generate_audio_route and of process_script
    progress_store,         \* the module-level dict progress_data, by podcast_id
    stored,                 \* every snapshot stored under each podcast_id, in order, with the request that stored it
    instances,              \* speaker_voice_mapping of each ScriptProcessor instance
    tmpdirs                 \* the directories tempfile.mkdtemp() hands out, with their files

\* the podcast store (the specification SpecStore)
VARIABLES
    podcasts_json,          \* the file data/podcasts.json: the stored podcasts by id, or what a write in progress has left of it
    store_ops               \* each call of a store function that is under way: its arguments, its position, its local list podcasts

soloVars == <<caller, script, readable, outExt, fs, pc, progress_data, written, cbLog,
              conversation, speaker_voice_mapping, i, segment_paths, segFiles, ttsCalls,
              scratchDir, file_list, tmpList, concat, success, ret, scriptTmp, audioUrl>>

concVars == <<runs, progress_store, stored, instances, tmpdirs>>

storeVars == <<podcasts_json, store_ops>>

vars == <<soloVars, concVars, storeVars>>

\* what no step of a single run changes
inputVars == <<caller, script, readable, outExt, concVars, storeVars>>
routeVars == <<progress_data, written, cbLog>>
genVars   == <<i, segment_paths, segFiles, ttsCalls>>
combVars  == <<file_list, tmpList, concat, success, fs>>

None == "none"

\* a file: absent, zero-length, left by an earlier run (non-empty), or audio
\* written by this run (non-empty)
NonEmpty == {"stale", "audio"}

Snapshot(status, step, progress) ==
    [status |-> status, step |-> step, progress |-> progress]

\* audio_generation.py 111-115: progress_callback; a direct caller passes no callback
Callback(info) ==
    IF caller = "route"
    THEN /\ progress_data' = info
         /\ written' = Append(written, info)
         /\ cbLog' = Append(cbLog, info)
    ELSE UNCHANGED routeVars

\* progress_data[podcast_id] = {...} in generate_audio_route and _generate_dummy_audio
RouteWrite(info) ==
    /\ progress_data' = info
    /\ written' = Append(written, info)
    /\ UNCHANGED cbLog

----------------------------------------------------------------------------
(* Initial states *)

\* no call of a store function is under way
NoStore ==
    /\ podcasts_json = [state |-> "json", podcasts |-> <<>>]
    /\ store_ops = <<>>

\* no other request is being served
NoRuns ==
    /\ NoStore
    /\ runs = <<>>
    /\ progress_store = <<>>
    /\ stored = <<>>
    /\ instances = <<>>
    /\ tmpdirs = <<>>

Init ==
    /\ NoRuns
    /\ script \in Scripts
    /\ \/ /\ caller = "route"          \* audio_path = <uuid4>.wav: a new file name
          /\ readable = TRUE
          /\ outExt = "wav"
          /\ fs = [e \in {"mp3", "wav"} |-> "absent"]
          /\ pc = "r_begin"
       \/ /\ caller = "cli"            \* any output_path; ffmpeg -y overwrites what is there
          /\ readable \in BOOLEAN
          /\ readable = FALSE => script = <<>>
          /\ outExt \in {"mp3", "wav"}
          /\ \E old \in {"absent", "empty", "stale"} :
                fs = [e \in {"mp3", "wav"} |-> IF e = outExt THEN old ELSE "absent"]
          /\ pc = "ps_begin"
    /\ progress_data = None
    /\ written = <<>>
    /\ cbLog = <<>>
    /\ conversation = <<>>
    /\ speaker_voice_mapping = <<>>
    /\ i = 0
    /\ segment_paths = <<>>
    /\ segFiles = {}
    /\ ttsCalls = <<>>
    /\ scratchDir = FALSE
    /\ file_list = <<>>
    /\ tmpList = FALSE
    /\ concat = None
    /\ success = FALSE
    /\ ret = None
    /\ scriptTmp = FALSE
    /\ audioUrl = None

----------------------------------------------------------------------------
(* generate_audio_route, up to the call of process_script *)

\* audio_generation.py 54-56: `if not script` answers 400 before any progress is stored
RouteReject ==
    /\ pc = "r_begin"
    /\ Content(script) = <<>>
    /\ pc' = "done"
    /\ UNCHANGED <<inputVars, routeVars, conversation, speaker_voice_mapping, genVars,
                   scratchDir, combVars, ret, scriptTmp, audioUrl>>

\* audio_generation.py 58-65
RouteBegin ==
    /\ pc = "r_begin"
    /\ Content(script) # <<>>
    /\ RouteWrite(Snapshot("initializing", "setup", 5))
    /\ pc' = "r_init"
    /\ UNCHANGED <<inputVars, conversation, speaker_voice_mapping, genVars,
                   scratchDir, combVars, ret, scriptTmp, audioUrl>>

\* audio_generation.py 75-85: ScriptProcessor() raises (no CARTESIA_API_KEY)
RouteInitFail ==
    /\ pc = "r_init"
    /\ RouteWrite(Snapshot("error", "initialization", 0))
    /\ pc' = "dummy"
    /\ UNCHANGED <<inputVars, conversation, speaker_voice_mapping, genVars,
                   scratchDir, combVars, ret, scriptTmp, audioUrl>>

\* audio_generation.py 87-108
RouteSaveScript ==
    /\ pc = "r_init"
    /\ RouteWrite(Snapshot("processing", "saving_script", 10))
    /\ scriptTmp' = TRUE
    /\ pc' = "ps_begin"
    /\ UNCHANGED <<inputVars, conversation, speaker_voice_mapping, genVars,
                   scratchDir, combVars, ret, audioUrl>>

----------------------------------------------------------------------------
(* process_script *)

\* script_processor.py 419-422
PSBegin ==
    /\ pc = "ps_begin"
    /\ Callback(Snapshot("processing", "parsing", 10))
    /\ pc' = "ps_parse"
    /\ UNCHANGED <<inputVars, conversation, speaker_voice_mapping, genVars,
                   scratchDir, combVars, ret, scriptTmp, audioUrl>>

\* mutant of ParseFailed: an empty conversation is not taken for a failure
ParseFailed_Never(conv) == FALSE

\* script_processor.py 426: `if not conversation`
ParseFailed(conv) == conv = <<>>

\* script_processor.py 425-436
PSParse ==
    /\ pc = "ps_parse"
    /\ LET conv == parse_script(readable, Content(script))
       IN  /\ conversation' = conv
           /\ IF ParseFailed(conv)
              THEN /\ Callback(Snapshot("error", "parsing", 10))
                   /\ ret' = "False"
                   /\ pc' = "ps_return"
              ELSE /\ Callback(Snapshot("processing", "speaker_detection", 30))
                   /\ ret' = ret
                   /\ pc' = "ps_detect"
    /\ UNCHANGED <<inputVars, speaker_voice_mapping, genVars,
                   scratchDir, combVars, scriptTmp, audioUrl>>

\* script_processor.py 439-448, 263-264
PSDetect ==
    /\ pc = "ps_detect"
    /\ \E speakers \in ListingsOf(conversation) :
          speaker_voice_mapping' = detect_speakers_and_assign_voices(speakers)
    /\ Callback(Snapshot("processing", "audio_generation", 50))
    /\ scratchDir' = TRUE
    /\ i' = 0
    /\ segment_paths' = <<>>
    /\ pc' = "ps_generate"
    /\ UNCHANGED <<inputVars, conversation, segFiles, ttsCalls,
                   combVars, ret, scriptTmp, audioUrl>>

----------------------------------------------------------------------------
(* generate_audio_segments *)

\* what one client.tts.bytes call and the handling of its result can do:
\*   ok      audio bytes are returned and written (294-323)
\*   empty   the response carries no audio data: a zero-length .wav is written (305-321)
\*   error   the call raises an ordinary error: a placeholder is written (326-339)
\*   quota   the call raises "credit limit reached" (331-333)
\*   fault_recovered, fault_raised
\*           the call raises an ordinary error and writing the placeholder raises
\*           too (336-338); the handler at 340-346 then writes its own placeholder,
\*           which works, or raises out of generate_audio_segments
TTSOutcomes == {"ok", "empty", "error", "quota", "fault_recovered", "fault_raised"}

\* mutant of IsQuotaError: the quota phrase is never recognised
IsQuotaError_Never(outcome) == FALSE

\* script_processor.py 331: "credit limit reached" in error_message.lower()
IsQuotaError(outcome) == outcome = "quota"

\* mutant of SegmentFile: the placeholder gets the number of the next utterance
SegmentFile_NextOrdinal(idx, outcome) ==
    IF outcome = "ok" THEN [idx |-> idx, ext |-> "wav", size |-> "audio"]
    ELSE IF outcome = "empty" THEN [idx |-> idx, ext |-> "wav", size |-> "empty"]
    ELSE [idx |-> idx + 1, ext |-> "mp3", size |-> "empty"]

\* script_processor.py 319 and 336: the segment file one iteration leaves
SegmentFile(idx, outcome) ==
    IF outcome = "ok" THEN [idx |-> idx, ext |-> "wav", size |-> "audio"]
    ELSE IF outcome = "empty" THEN [idx |-> idx, ext |-> "wav", size |-> "empty"]
    ELSE [idx |-> idx, ext |-> "mp3", size |-> "empty"]

PathOf(file) == [idx |-> file.idx, ext |-> file.ext]

\* mutant of AppendPath: segment_paths.insert(0, segment_path)
AppendPath_Front(paths, path) == <<path>> \o paths

\* script_processor.py 323 and 339: segment_paths.append(segment_path)
AppendPath(paths, path) == Append(paths, path)

\* the record of one TTS call
TTSCall(idx, outcome) ==
    [idx |-> idx,
     speaker |-> conversation[idx + 1].speaker,
     voice |-> VoiceFor(speaker_voice_mapping, conversation[idx + 1].speaker),
     transcript |-> conversation[idx + 1].text,
     outcome |-> outcome,
     cbAtCall |-> Len(cbLog)]

\* where the loop goes after iteration idx (268, 333, 340-347)
AfterSegment(idx, outcome) ==
    IF outcome = "fault_raised" THEN "ps_except"
    ELSE IF IsQuotaError(outcome) \/ outcome = "fault_recovered" THEN "ps_combining"
    ELSE IF idx + 1 < Len(conversation) THEN "ps_generate"
    ELSE "ps_combining"

\* script_processor.py 268-347: one iteration of the loop
GenSegment(outcome) ==
    /\ pc = "ps_generate"
    /\ i < Len(conversation)
    /\ ttsCalls' = Append(ttsCalls, TTSCall(i, outcome))
    /\ IF IsQuotaError(outcome) \/ outcome = "fault_raised"
       THEN UNCHANGED <<segment_paths, segFiles>>
       ELSE LET idx  == IF outcome = "fault_recovered" THEN Len(segment_paths) ELSE i
                file == SegmentFile(idx, outcome)
            IN  /\ segFiles' = segFiles \cup {file}
                /\ segment_paths' = AppendPath(segment_paths, PathOf(file))
    /\ i' = IF AfterSegment(i, outcome) = "ps_generate" THEN i + 1 ELSE i
    /\ pc' = AfterSegment(i, outcome)
    /\ UNCHANGED <<inputVars, routeVars, conversation, speaker_voice_mapping,
                   scratchDir, combVars, ret, scriptTmp, audioUrl>>

\* script_processor.py 452-455
PSCombining ==
    /\ pc = "ps_combining"
    /\ Callback(Snapshot("processing", "combining", 80))
    /\ pc' = "ps_combine"
    /\ UNCHANGED <<inputVars, conversation, speaker_voice_mapping, genVars,
                   scratchDir, combVars, ret, scriptTmp, audioUrl>>

----------------------------------------------------------------------------
(* combine_audio_segments *)

\* mutant of IsValidSegment: only os.path.exists(segment_path) is tested
IsValidSegment_ExistsOnly(path, files) ==
    \E f \in files : [idx |-> f.idx, ext |-> f.ext] = path

\* mutant of IsValidSegment: os.path.getsize(segment_path) > 0 is not tested
IsValidSegment_AnySize(path, files) ==
    /\ \E f \in files : [idx |-> f.idx, ext |-> f.ext] = path
    /\ path.ext = "wav"

\* script_processor.py 366: exists, size > 0, ends with ".wav"
IsValidSegment(path, files) ==
    /\ \E f \in files : PathOf(f) = path /\ f.size \in NonEmpty
    /\ path.ext = "wav"

\* script_processor.py 362-370
valid_segments(paths, files) ==
    SelectSeq(paths, LAMBDA path : IsValidSegment(path, files))

\* script_processor.py 380-382: the path ffmpeg is given
EffectiveOutput(ext) == IF ext = "wav" THEN ext ELSE "wav"

\* what ffmpeg does:
\*   ok       exits 0 and leaves a non-empty file
\*   empty    exits 0 and leaves a zero-length file
\*   missing  exits 0 and leaves no file
\*   fail     subprocess.run raises (non-zero exit, or no ffmpeg); the path is untouched
ConcatOutcomes == {"ok", "empty", "missing", "fail"}

\* the output file after ffmpeg
ConcatWrites(old, outcome) ==
    IF outcome = "ok" THEN "audio"
    ELSE IF outcome = "empty" THEN "empty"
    ELSE IF outcome = "missing" THEN "absent"
    ELSE old

\* mutant of OutputWritten: only os.path.exists(output_path) is tested
OutputWritten_ExistsOnly(file) == file # "absent"

\* script_processor.py 394: os.path.exists(output_path) and os.path.getsize(output_path) > 0
OutputWritten(file) == file \in NonEmpty

\* script_processor.py 360-403
PSCombine(outcome) ==
    /\ pc = "ps_combine"
    /\ LET valid == valid_segments(segment_paths, segFiles)
           out   == EffectiveOutput(outExt)
       IN  /\ file_list' = [k \in 1..Len(valid) |-> valid[k].idx]
           /\ IF valid = <<>>
              THEN /\ concat' = "not_run"
                   /\ tmpList' = TRUE
                   /\ success' = FALSE
                   /\ fs' = fs
              ELSE /\ concat' = outcome
                   /\ tmpList' = (outcome = "fail")
                   /\ fs' = [fs EXCEPT ![out] = ConcatWrites(fs[out], outcome)]
                   /\ success' = (outcome # "fail" /\ OutputWritten(fs'[out]))
    /\ pc' = "ps_finish"
    /\ UNCHANGED <<inputVars, routeVars, conversation, speaker_voice_mapping, genVars,
                   scratchDir, ret, scriptTmp, audioUrl>>

----------------------------------------------------------------------------
(* process_script, after combining *)

\* mutant of FinalSnapshot: the failure is reported with status processing
FinalSnapshot_Processing(ok) ==
    IF ok THEN [status |-> "complete", step |-> "finished", progress |-> 100]
    ELSE [status |-> "processing", step |-> "combining", progress |-> 80]

\* mutant of FinalSnapshot: the failure is reported with status failed
FinalSnapshot_Failed(ok) ==
    IF ok THEN [status |-> "complete", step |-> "finished", progress |-> 100]
    ELSE [status |-> "failed", step |-> "combining", progress |-> 80]

\* mutant of FinalSnapshot: the last snapshot says complete whatever the result
FinalSnapshot_AlwaysComplete(ok) ==
    [status |-> "complete", step |-> IF ok THEN "finished" ELSE "combining",
     progress |-> IF ok THEN 100 ELSE 80]

\* script_processor.py 464-473: the last snapshot
FinalSnapshot(ok) ==
    IF ok THEN Snapshot("complete", "finished", 100)
    ELSE Snapshot("error", "combining", 80)

\* script_processor.py 460-475
PSFinish ==
    /\ pc = "ps_finish"
    /\ scratchDir' = FALSE
    /\ segFiles' = {}
    /\ Callback(FinalSnapshot(success))
    /\ ret' = IF success THEN "True" ELSE "False"
    /\ pc' = "ps_return"
    /\ UNCHANGED <<inputVars, conversation, speaker_voice_mapping, i, segment_paths,
                   ttsCalls, combVars, scriptTmp, audioUrl>>

\* script_processor.py 476-481
PSExcept ==
    /\ pc = "ps_except"
    /\ Callback(Snapshot("error", "processing", 0))
    /\ ret' = "False"
    /\ pc' = "ps_return"
    /\ UNCHANGED <<inputVars, conversation, speaker_voice_mapping, genVars,
                   scratchDir, combVars, scriptTmp, audioUrl>>

\* a direct caller gets the return value
CliReturn ==
    /\ pc = "ps_return"
    /\ caller = "cli"
    /\ pc' = "done"
    /\ UNCHANGED <<inputVars, routeVars, conversation, speaker_voice_mapping, genVars,
                   scratchDir, combVars, ret, scriptTmp, audioUrl>>

----------------------------------------------------------------------------
(* generate_audio_route, after process_script; _generate_dummy_audio *)

\* audio_generation.py 121-150
RouteSuccess ==
    /\ pc = "ps_return"
    /\ caller = "route"
    /\ ret = "True"
    /\ scriptTmp' = FALSE
    /\ audioUrl' = "audio"
    /\ RouteWrite(Snapshot("complete", "finished", 100))
    /\ pc' = "done"
    /\ UNCHANGED <<inputVars, conversation, speaker_voice_mapping, genVars,
                   scratchDir, combVars, ret>>

\* audio_generation.py 121-127, 152-162
RouteFailure ==
    /\ pc = "ps_return"
    /\ caller = "route"
    /\ ret = "False"
    /\ scriptTmp' = FALSE
    /\ RouteWrite(Snapshot("error", "processing", 0))
    /\ pc' = "dummy"
    /\ UNCHANGED <<inputVars, conversation, speaker_voice_mapping, genVars,
                   scratchDir, combVars, ret, audioUrl>>

\* audio_generation.py 169-203; the dummy file gets a file name of its own
GenerateDummyAudio ==
    /\ pc = "dummy"
    /\ audioUrl' = "dummy"
    /\ RouteWrite(Snapshot("complete", "dummy_audio", 100))
    /\ pc' = "done"
    /\ UNCHANGED <<inputVars, conversation, speaker_voice_mapping, genVars,
                   scratchDir, combVars, ret, scriptTmp>>

----------------------------------------------------------------------------

Next ==
    \/ RouteReject
    \/ RouteBegin
    \/ RouteInitFail
    \/ RouteSaveScript
    \/ PSBegin
    \/ PSParse
    \/ PSDetect
    \/ \E outcome \in TTSOutcomes : GenSegment(outcome)
    \/ PSCombining
    \/ \E outcome \in ConcatOutcomes : PSCombine(outcome)
    \/ PSFinish
    \/ PSExcept
    \/ CliReturn
    \/ RouteSuccess
    \/ RouteFailure
    \/ GenerateDummyAudio

Spec == Init /\ [][Next]_vars

----------------------------------------------------------------------------
(* The parser and the voice assignment on their own: process_script called
   directly on a wider range of transcripts, followed up to the voice
   assignment *)

InitParse ==
    /\ NoRuns
    /\ script \in ParseScripts
    /\ caller = "cli"
    /\ readable = TRUE
    /\ outExt = "wav"
    /\ fs = [e \in {"mp3", "wav"} |-> "absent"]
    /\ pc = "ps_begin"
    /\ progress_data = None
    /\ written = <<>>
    /\ cbLog = <<>>
    /\ conversation = <<>>
    /\ speaker_voice_mapping = <<>>
    /\ i = 0
    /\ segment_paths = <<>>
    /\ segFiles = {}
    /\ ttsCalls = <<>>
    /\ scratchDir = FALSE
    /\ file_list = <<>>
    /\ tmpList = FALSE
    /\ concat = None
    /\ success = FALSE
    /\ ret = None
    /\ scriptTmp = FALSE
    /\ audioUrl = None

NextParse ==
    \/ PSBegin
    \/ PSParse
    \/ PSDetect

SpecParse == InitParse /\ [][NextParse]_vars

----------------------------------------------------------------------------
(* Two requests at once: generate_audio_route runs in two threads of the
   server, on two podcasts. Each step of a request is one of the steps above,
   taken on the request's own variables and on what the requests share: the
   dict progress_data and the directory of temporary files. *)

RunIds == {1, 2}

\* audio_generation.py 47: the podcast_id of each request; the two differ
PodcastIdOf(r) == IF r = 1 THEN "podcast-1" ELSE "podcast-2"

PodcastIds == {PodcastIdOf(r) : r \in RunIds}

\* mutant of ProcessorOf: one ScriptProcessor serves every request
ProcessorOf_Shared(r) == Min(RunIds)

\* audio_generation.py 71: each request constructs its own ScriptProcessor
ProcessorOf(r) == r

\* the names tempfile.mkdtemp() can hand out
DirNames == {"tmpA", "tmpB"}

\* the transcripts of the requests: two speakers, one speaker, no speaker line
ConcScripts == {<<6, 7>>, <<7>>, <<10>>}

\* what a TTS call and ffmpeg do in these runs
ConcTTSOutcomes == {"ok", "error", "quota"}
ConcConcatOutcomes == {"ok", "fail"}

NewRun(r, scr) ==
    [podcast_id |-> PodcastIdOf(r), script |-> scr, pc |-> "r_begin",
     conversation |-> <<>>, listing |-> <<>>, i |-> 0, segment_paths |-> <<>>,
     calls |-> <<>>, dir |-> None, file_list |-> <<>>, concat |-> None,
     success |-> FALSE, ret |-> None, out |-> "absent"]

NoDir == [exists |-> FALSE, files |-> {}]

InitConc ==
    /\ \E s1, s2 \in ConcScripts :
          runs = [r \in RunIds |-> NewRun(r, IF r = 1 THEN s1 ELSE s2)]
    /\ NoStore
    /\ progress_store = [p \in PodcastIds |-> None]
    /\ stored = [p \in PodcastIds |-> <<>>]
    /\ instances = [n \in RunIds |-> <<>>]
    /\ tmpdirs = [d \in DirNames |-> NoDir]
    /\ caller = "route"
    /\ script = <<>>
    /\ readable = TRUE
    /\ outExt = "wav"
    /\ fs = [e \in {"mp3", "wav"} |-> "absent"]
    /\ pc = "idle"
    /\ progress_data = None
    /\ written = <<>>
    /\ cbLog = <<>>
    /\ conversation = <<>>
    /\ speaker_voice_mapping = <<>>
    /\ i = 0
    /\ segment_paths = <<>>
    /\ segFiles = {}
    /\ ttsCalls = <<>>
    /\ scratchDir = FALSE
    /\ file_list = <<>>
    /\ tmpList = FALSE
    /\ concat = None
    /\ success = FALSE
    /\ ret = None
    /\ scriptTmp = FALSE
    /\ audioUrl = None

\* progress_data[podcast_id] = {...}, by the route (59, 77, 95, 138, 154, 190)
\* and by progress_callback (112)
Store(r, info) ==
    /\ progress_store' = [progress_store EXCEPT ![runs[r].podcast_id] = info]
    /\ stored' = [stored EXCEPT ![runs[r].podcast_id] = Append(@, [by |-> r, info |-> info])]

\* the request moves to position to
Goto(r, to) == runs' = [runs EXCEPT ![r].pc = to]

\* audio_generation.py 58-65
ConcRouteBegin(r) ==
    /\ runs[r].pc = "r_begin"
    /\ Store(r, Snapshot("initializing", "setup", 5))
    /\ Goto(r, "r_init")
    /\ UNCHANGED <<soloVars, storeVars, instances, tmpdirs>>

\* audio_generation.py 75-85
ConcRouteInitFail(r) ==
    /\ runs[r].pc = "r_init"
    /\ Store(r, Snapshot("error", "initialization", 0))
    /\ Goto(r, "dummy")
    /\ UNCHANGED <<soloVars, storeVars, instances, tmpdirs>>

\* audio_generation.py 71-73, 87-108; script_processor.py 65
ConcRouteSaveScript(r) ==
    /\ runs[r].pc = "r_init"
    /\ instances' = [instances EXCEPT ![ProcessorOf(r)] = <<>>]
    /\ Store(r, Snapshot("processing", "saving_script", 10))
    /\ Goto(r, "ps_begin")
    /\ UNCHANGED <<soloVars, storeVars, tmpdirs>>

\* script_processor.py 419-422
ConcPSBegin(r) ==
    /\ runs[r].pc = "ps_begin"
    /\ Store(r, Snapshot("processing", "parsing", 10))
    /\ Goto(r, "ps_parse")
    /\ UNCHANGED <<soloVars, storeVars, instances, tmpdirs>>

\* script_processor.py 425-436
ConcPSParse(r) ==
    /\ runs[r].pc = "ps_parse"
    /\ LET conv == parse_script(TRUE, Content(runs[r].script))
       IN  IF ParseFailed(conv)
           THEN /\ Store(r, Snapshot("error", "parsing", 10))
                /\ runs' = [runs EXCEPT ![r].conversation = conv,
                                        ![r].ret = "False",
                                        ![r].pc = "ps_return"]
           ELSE /\ Store(r, Snapshot("processing", "speaker_detection", 30))
                /\ runs' = [runs EXCEPT ![r].conversation = conv,
                                        ![r].pc = "ps_detect"]
    /\ UNCHANGED <<soloVars, storeVars, instances, tmpdirs>>

\* script_processor.py 439-448, 263-264: the voices go to the instance's
\* speaker_voice_mapping; mkdtemp makes a directory that did not exist
ConcPSDetect(r) ==
    /\ runs[r].pc = "ps_detect"
    /\ \E speakers \in ListingsOf(runs[r].conversation), d \in DirNames :
          /\ ~tmpdirs[d].exists
          /\ instances' = [instances EXCEPT ![ProcessorOf(r)] =
                              detect_speakers_and_assign_voices(speakers)]
          /\ tmpdirs' = [tmpdirs EXCEPT ![d] = [exists |-> TRUE, files |-> {}]]
          /\ runs' = [runs EXCEPT ![r].listing = speakers,
                                  ![r].dir = d,
                                  ![r].i = 0,
                                  ![r].segment_paths = <<>>,
                                  ![r].pc = "ps_generate"]
    /\ Store(r, Snapshot("processing", "audio_generation", 50))
    /\ UNCHANGED <<soloVars, storeVars>>

\* script_processor.py 268-339: one iteration of the loop, with the voice the
\* instance's speaker_voice_mapping holds at that moment (273)
ConcGenSegment(r, outcome) ==
    /\ runs[r].pc = "ps_generate"
    /\ runs[r].i < Len(runs[r].conversation)
    /\ LET run  == runs[r]
           spk  == run.conversation[run.i + 1].speaker
           call == [idx |-> run.i, speaker |-> spk,
                    voice |-> VoiceFor(instances[ProcessorOf(r)], spk),
                    outcome |-> outcome]
           file == SegmentFile(run.i, outcome)
           more == ~IsQuotaError(outcome) /\ run.i + 1 < Len(run.conversation)
       IN  /\ tmpdirs' = IF IsQuotaError(outcome) THEN tmpdirs
                         ELSE [tmpdirs EXCEPT ![run.dir].files = @ \cup {file}]
           /\ runs' = [runs EXCEPT
                          ![r].calls = Append(@, call),
                          ![r].segment_paths =
                              IF IsQuotaError(outcome) THEN @ ELSE AppendPath(@, PathOf(file)),
                          ![r].i = IF more THEN @ + 1 ELSE @,
                          ![r].pc = IF more THEN "ps_generate" ELSE "ps_combining"]
    /\ UNCHANGED <<soloVars, storeVars, progress_store, stored, instances>>

\* script_processor.py 452-455
ConcPSCombining(r) ==
    /\ runs[r].pc = "ps_combining"
    /\ Store(r, Snapshot("processing", "combining", 80))
    /\ Goto(r, "ps_combine")
    /\ UNCHANGED <<soloVars, storeVars, instances, tmpdirs>>

\* script_processor.py 360-403: the segments are looked up in the directory,
\* the output goes to the request's own audio_path (audio_generation.py 88-89)
ConcPSCombine(r, outcome) ==
    /\ runs[r].pc = "ps_combine"
    /\ LET run   == runs[r]
           valid == valid_segments(run.segment_paths, tmpdirs[run.dir].files)
           out   == IF valid = <<>> THEN run.out ELSE ConcatWrites(run.out, outcome)
       IN  runs' = [runs EXCEPT
                       ![r].file_list = [k \in 1..Len(valid) |-> valid[k].idx],
                       ![r].concat = IF valid = <<>> THEN "not_run" ELSE outcome,
                       ![r].out = out,
                       ![r].success = valid # <<>> /\ outcome # "fail" /\ OutputWritten(out),
                       ![r].pc = "ps_finish"]
    /\ UNCHANGED <<soloVars, storeVars, progress_store, stored, instances, tmpdirs>>

\* script_processor.py 460-475
ConcPSFinish(r) ==
    /\ runs[r].pc = "ps_finish"
    /\ tmpdirs' = [tmpdirs EXCEPT ![runs[r].dir] = NoDir]
    /\ Store(r, FinalSnapshot(runs[r].success))
    /\ runs' = [runs EXCEPT ![r].ret = IF runs[r].success THEN "True" ELSE "False",
                            ![r].pc = "ps_return"]
    /\ UNCHANGED <<soloVars, storeVars, instances>>

\* audio_generation.py 121-150
ConcRouteSuccess(r) ==
    /\ runs[r].pc = "ps_return"
    /\ runs[r].ret = "True"
    /\ Store(r, Snapshot("complete", "finished", 100))
    /\ Goto(r, "done")
    /\ UNCHANGED <<soloVars, storeVars, instances, tmpdirs>>

\* audio_generation.py 125-127, 152-162
ConcRouteFailure(r) ==
    /\ runs[r].pc = "ps_return"
    /\ runs[r].ret = "False"
    /\ Store(r, Snapshot("error", "processing", 0))
    /\ Goto(r, "dummy")
    /\ UNCHANGED <<soloVars, storeVars, instances, tmpdirs>>

\* audio_generation.py 169-203
ConcGenerateDummyAudio(r) ==
    /\ runs[r].pc = "dummy"
    /\ Store(r, Snapshot("complete", "dummy_audio", 100))
    /\ Goto(r, "done")
    /\ UNCHANGED <<soloVars, storeVars, instances, tmpdirs>>

NextConc ==
    \E r \in RunIds :
        \/ ConcRouteBegin(r)
        \/ ConcRouteInitFail(r)
        \/ ConcRouteSaveScript(r)
        \/ ConcPSBegin(r)
        \/ ConcPSParse(r)
        \/ ConcPSDetect(r)
        \/ \E outcome \in ConcTTSOutcomes : ConcGenSegment(r, outcome)
        \/ ConcPSCombining(r)
        \/ \E outcome \in ConcConcatOutcomes : ConcPSCombine(r, outcome)
        \/ ConcPSFinish(r)
        \/ ConcRouteSuccess(r)
        \/ ConcRouteFailure(r)
        \/ ConcGenerateDummyAudio(r)

SpecConc == InitConc /\ [][NextConc]_vars

----------------------------------------------------------------------------
(* Vocabulary of the properties *)

\* process_script has returned
Returned == ret # None

\* detect_speakers_and_assign_voices has run and process_script has not left yet
PostDetect == pc \in {"ps_generate", "ps_combining", "ps_combine", "ps_finish", "ps_except"}

\* the indices of the utterances whose TTS call gave non-empty audio, in call order
OkCalls == SelectSeq(ttsCalls, LAMBDA c : c.outcome = "ok")
OkIdx == [k \in 1..Len(OkCalls) |-> OkCalls[k].idx]

Speakers(conv) == [k \in 1..Len(conv) |-> conv[k].speaker]

Host  == <<"H","o","s","t">>
Guest == <<"G","u","e","s","t">>

\* the first and the second label in order of appearance (two labels at least)
FirstSpeaker == conversation[1].speaker
SecondSpeaker ==
    conversation[Min({k \in 1..Len(conversation) :
                        conversation[k].speaker # FirstSpeaker})].speaker

TwoSpeakers == Cardinality(unique_speakers(conversation)) = 2

----------------------------------------------------------------------------
(* C1 *)

\* C1: for every output_path, whatever its extension, process_script returns
\* True if and only if a non-empty audio file exists at exactly that
\* output_path when it returns.  The code writes to <base>.wav and checks that
\* path (380-394), and never removes what is at output_path, so this fails.
C1_TrueIffOutputAtPath ==
    Returned => (ret = "True" <=> fs[outExt] \in NonEmpty)

----------------------------------------------------------------------------
(* C2 *)

\* every utterance was rendered, each call gave audio or raised an ordinary
\* error, and one at least gave audio
DegradedCase ==
    /\ Returned
    /\ Len(conversation) >= 1
    /\ Len(ttsCalls) = Len(conversation)
    /\ \A k \in 1..Len(ttsCalls) : ttsCalls[k].outcome \in {"ok", "error"}
    /\ \E k \in 1..Len(ttsCalls) : ttsCalls[k].outcome = "ok"

\* C2 as stated: when M of N utterances fail with ordinary errors and the
\* other N-M >= 1 give non-empty audio, process_script returns True and the
\* concatenation list is exactly the N-M successful segments in order.
C2_DegradedReturnsTrue ==
    DegradedCase => (ret = "True" /\ file_list = OkIdx)

\* C2 amended: in that case the concatenation list is exactly the N-M
\* successful segments in their original order, and process_script returns
\* True if and only if ffmpeg exits 0 and leaves a non-empty output file.
C2_DegradedCompletion ==
    DegradedCase => (file_list = OkIdx /\ (ret = "True" <=> concat = "ok"))

\* a run of C2's case with a failed utterance between two rendered ones
C2_Witness ==
    /\ DegradedCase
    /\ ret = "True"
    /\ Len(file_list) >= 2
    /\ \E k \in 1..Len(ttsCalls) : ttsCalls[k].outcome = "error"

----------------------------------------------------------------------------
(* C3 *)

\* no utterance gave a valid segment (N = 0 included)
HardFailureCase ==
    /\ Returned
    /\ \A k \in 1..Len(ttsCalls) : ttsCalls[k].outcome # "ok"

\* C3: when parsing yields no utterance or every utterance fails to give a
\* valid segment, process_script returns False and no file exists at
\* output_path when it returns.  No statement of the code removes the output
\* file, so one that was there before the run is there after it.
C3_HardFailureLeavesNoOutput ==
    HardFailureCase => (ret = "False" /\ fs[outExt] = "absent")

----------------------------------------------------------------------------
(* C4 *)

\* the TTS call of utterance k >= 2 raised "credit limit reached" and an
\* earlier utterance gave non-empty audio
QuotaCase ==
    /\ Returned
    /\ \E k \in 2..Len(ttsCalls) :
          /\ ttsCalls[k].outcome = "quota"
          /\ \E j \in 1..(k - 1) : ttsCalls[j].outcome = "ok"

\* no TTS call follows one that raised "credit limit reached"
QuotaStops ==
    \A k \in 1..Len(ttsCalls) : ttsCalls[k].outcome = "quota" => k = Len(ttsCalls)

\* C4 as stated: after a quota error on utterance k with a valid earlier
\* segment, no further TTS call is made, the valid segments among 1..k-1 are
\* combined, and process_script returns True.
C4_QuotaReturnsTrue ==
    /\ QuotaStops
    /\ QuotaCase => (file_list = OkIdx /\ ret = "True")

\* C4 amended: no further TTS call is made, the concatenation list is exactly
\* the valid segments among 1..k-1, and process_script returns True if and
\* only if ffmpeg exits 0 and leaves a non-empty output file.
C4_QuotaDegradedCompletion ==
    /\ QuotaStops
    /\ QuotaCase => (file_list = OkIdx /\ (ret = "True" <=> concat = "ok"))

\* Scenario D: quota error on utterance 3 of 5, segments 1-2 combined, True
C4_Witness ==
    /\ script = ScenarioD
    /\ Len(conversation) = 5
    /\ Len(ttsCalls) = 3
    /\ ttsCalls[3].outcome = "quota"
    /\ file_list = <<0, 1>>
    /\ ret = "True"

----------------------------------------------------------------------------
(* C5 *)

\* C5: the utterance indices of the segments written to the concatenation
\* list are strictly increasing, whichever segments were dropped.
C5_OrderPreserved ==
    \A a, b \in 1..Len(file_list) : a < b => file_list[a] < file_list[b]

\* a list of two segments or more with a dropped segment between two of them
C5_Witness ==
    /\ Returned
    /\ \E a \in 1..(Len(file_list) - 1) : file_list[a + 1] > file_list[a] + 1

----------------------------------------------------------------------------
(* C6 *)

StageOrder ==
    <<"parsing", "speaker_detection", "audio_generation", "combining", "finished">>

\* C6: the snapshots one call of process_script passes to its callback are a
\* prefix of parsing, speaker_detection, audio_generation, combining, finished
\* (the last with status complete, the others processing), optionally closed
\* by one snapshot with status error; nothing follows complete or error.
C6_StagesInOrder ==
    LET n      == Len(cbLog)
        closed == n > 0 /\ cbLog[n].status = "error"
        m      == IF closed THEN n - 1 ELSE n
    IN  /\ m <= Len(StageOrder)
        /\ \A k \in 1..m :
              /\ k <= Len(StageOrder)
              /\ cbLog[k].step = StageOrder[k]
              /\ cbLog[k].status = IF k = Len(StageOrder) THEN "complete" ELSE "processing"
        /\ closed => m < Len(StageOrder)

\* a run that went through the four stages and closed with an error
C6_Witness ==
    /\ Len(cbLog) = Len(StageOrder)
    /\ cbLog[Len(cbLog)].status = "error"
    /\ cbLog[Len(cbLog) - 1].step = "combining"

----------------------------------------------------------------------------
(* C7 *)

\* C7: over the snapshots recorded for one run, by the route and through the
\* callback, progress is an integer in 0..100 and never decreases.  Every
\* error snapshot of the route and of process_script's except clause carries
\* progress 0.
C7_ProgressMonotone ==
    \A k \in 1..Len(written) :
        /\ written[k].progress \in 0..100
        /\ k > 1 => written[k - 1].progress <= written[k].progress

----------------------------------------------------------------------------
(* C8 *)

\* C8: once a run has recorded a snapshot with status error, it records no
\* later snapshot with status processing or complete, and a run whose render
\* returned False ends with status error.  _generate_dummy_audio stores
\* complete after every error.
C8_ErrorIsTerminal ==
    /\ \A j, k \in 1..Len(written) :
          (j < k /\ written[j].status = "error")
              => written[k].status \notin {"processing", "complete"}
    /\ (pc = "done" /\ caller = "route" /\ ret = "False") => progress_data.status = "error"

----------------------------------------------------------------------------
(* C9 *)

\* C9: Scenario A parses to 3 utterances with speakers Host, Guest, Host, has
\* 2 distinct labels, and Host gets palette[0] and Guest palette[5].
\* "guest" is a metadata keyword (198), so the Guest turn is discarded.
C9_ScenarioA ==
    (script = ScenarioA /\ PostDetect) =>
        /\ Len(conversation) = 3
        /\ Speakers(conversation) = <<Host, Guest, Host>>
        /\ Cardinality(unique_speakers(conversation)) = 2
        /\ VoiceFor(speaker_voice_mapping, Host) = Palette(0)
        /\ Guest \in DOMAIN speaker_voice_mapping
        /\ speaker_voice_mapping[Guest] = Palette(5)

----------------------------------------------------------------------------
(* C10 *)

\* every TTS call used the voice the map gives its speaker
VoicesStable ==
    \A k \in 1..Len(ttsCalls) :
        /\ ttsCalls[k].speaker \in DOMAIN speaker_voice_mapping
        /\ ttsCalls[k].voice = speaker_voice_mapping[ttsCalls[k].speaker]

----------------------------------------------------------------------------
(* Voice assignment with more than two speakers *)

\* the number of distinct speakers of the parsed conversation
K == Cardinality(unique_speakers(conversation))

\* the positions 0..K-1 of a listing that the round robin maps to voice v
PositionsOf(v) == {k \in 0..(K - 1) : k % Len(available_voices) = v}

\* the speakers that were assigned voice v
SpeakersWith(v) == {s \in DOMAIN speaker_voice_mapping : speaker_voice_mapping[s] = Palette(v)}

----------------------------------------------------------------------------
(* The scratch directory and the return value *)

\* C12: once process_script has returned, the scratch directory it created
\* is gone, whatever the exit path.
C12_ScratchDirRemoved ==
    Returned => ~scratchDir

\* process_script is running and has not reached its return
PSRunning ==
    pc \in {"ps_begin", "ps_parse", "ps_detect", "ps_generate", "ps_combining",
            "ps_combine", "ps_finish", "ps_except"}

\* C13: process_script does not raise: while it runs it has not returned and
\* its loop always has an utterance to render, every way out of it is a return
\* of True or False, and the last snapshot it passed to the callback has status
\* complete when it returned True and error when it returned False.
C13_ReturnsBooleanWithMatchingSnapshot ==
    /\ PSRunning => ret = None
    /\ pc = "ps_generate" => i < Len(conversation)
    /\ (pc \in {"done", "dummy"} /\ cbLog # <<>>) => ret \in {"True", "False"}
    /\ pc = "ps_return" =>
          /\ ret \in {"True", "False"}
          /\ caller = "route" =>
                /\ cbLog # <<>>
                /\ cbLog[Len(cbLog)].status = IF ret = "True" THEN "complete" ELSE "error"

\* a run through the route in which one TTS call failed with an ordinary
\* error, another succeeded and ffmpeg failed: process_script returned False
C13_Witness ==
    /\ caller = "route"
    /\ pc = "ps_return"
    /\ ret = "False"
    /\ concat = "fail"
    /\ \E a, b \in 1..Len(ttsCalls) :
          ttsCalls[a].outcome = "error" /\ ttsCalls[b].outcome = "ok"
    /\ cbLog[Len(cbLog)] = Snapshot("error", "combining", 80)

----------------------------------------------------------------------------
(* The parser on lines *)

\* parse_script has run
Parsed == pc = "ps_detect" \/ PostDetect \/ Returned

\* line number id of LinePool is a speaker line: not blank, not a comment, and
\* of the form [label]: text or label: text
IsOpenerLine(id) ==
    LET l == Strip(LinePool[id])
    IN  l # <<>> /\ ~IsCommentLine(l) /\ speaker_match(l).ok

LabelOf(id) == speaker_match(Strip(LinePool[id])).speaker
TextOf(id) == speaker_match(Strip(LinePool[id])).text

\* a label the parser is to take for metadata: it holds a metadata keyword,
\* whatever the case, or is longer than 30 characters
RejectedLabel(s) ==
    \/ \E kw \in metadata_keywords : Contains(Lower(s), kw)
    \/ Len(s) > 30

HasClosingTag(scr) == ClosingTagStarts(Content(scr)) # {}

\* the transcript without its metadata blocks: each speaker line with a
\* rejected label and the lines after it up to the next speaker line
RECURSIVE DropMetadataBlocks(_, _)
DropMetadataBlocks(scr, dropping) ==
    IF scr = <<>> THEN <<>>
    ELSE IF IsOpenerLine(Head(scr))
    THEN IF RejectedLabel(LabelOf(Head(scr)))
         THEN DropMetadataBlocks(Tail(scr), TRUE)
         ELSE <<Head(scr)>> \o DropMetadataBlocks(Tail(scr), FALSE)
    ELSE IF dropping
    THEN DropMetadataBlocks(Tail(scr), TRUE)
    ELSE <<Head(scr)>> \o DropMetadataBlocks(Tail(scr), FALSE)

A_Hi == [speaker |-> <<"A">>, text |-> <<"H","i">>]
B_Hello == [speaker |-> <<"B">>, text |-> <<"H","e","l","l","o">>]
Long30_GoodEveningMore ==
    [speaker |-> <<"D","r"," ","A","l","e","x","a","n","d","r","a"," ","M","o","n","t","g","o","m","e","r","y","-","S","m","y","t","h","e">>,
     text |-> <<"G","o","o","d"," ","e","v","e","n","i","n","g"," ","m","o","r","e">>]

\* C14: in a transcript without closing tag, no utterance carries a label that
\* holds a metadata keyword or is longer than 30 characters; a speaker line
\* with such a label and the lines after it up to the next speaker line leave
\* no trace: the utterances are those of the transcript without these lines,
\* so the turn before is emitted with its own text only. A label of 30
\* characters is accepted, one of 31 is not; Scenario C gives A: Hi, B: Hello.
C14_MetadataRejected ==
    (Parsed /\ readable /\ ~HasClosingTag(script))
        => /\ \A k \in 1..Len(conversation) : ~RejectedLabel(conversation[k].speaker)
           /\ conversation = parse_script(TRUE, Content(DropMetadataBlocks(script, FALSE)))
           /\ script = ScenarioC => conversation = <<A_Hi, B_Hello>>
           /\ script = Label31 => conversation = <<A_Hi, B_Hello>>
           /\ script = Label30 => conversation = <<A_Hi, Long30_GoodEveningMore, B_Hello>>

\* Scenario C was parsed: the line "Tone: formal and friendly" was dropped and
\* [A]'s turn was emitted with its own text
C14_Witness ==
    /\ Parsed
    /\ script = ScenarioC
    /\ DropMetadataBlocks(script, FALSE) = <<6, 7>>
    /\ conversation = <<A_Hi, B_Hello>>

----------------------------------------------------------------------------
(* Blank lines *)

IsBlankLine(id) == Strip(LinePool[id]) = <<>>

\* neither blank, nor a comment, nor a speaker line
IsPlainLine(id) ==
    LET l == Strip(LinePool[id])
    IN  l # <<>> /\ ~IsCommentLine(l) /\ ~speaker_match(l).ok

\* the transcript without the lines that follow a blank line up to the next
\* speaker line
RECURSIVE DropAfterBlank(_, _)
DropAfterBlank(scr, dropping) ==
    IF scr = <<>> THEN <<>>
    ELSE IF IsOpenerLine(Head(scr))
    THEN <<Head(scr)>> \o DropAfterBlank(Tail(scr), FALSE)
    ELSE IF IsBlankLine(Head(scr))
    THEN <<Head(scr)>> \o DropAfterBlank(Tail(scr), TRUE)
    ELSE IF dropping
    THEN DropAfterBlank(Tail(scr), TRUE)
    ELSE <<Head(scr)>> \o DropAfterBlank(Tail(scr), FALSE)

\* position k of the transcript is a speaker line with a label that is not
\* empty and is accepted, and with some text, k + 1 is a blank line, k + 2 a plain line, and then the
\* transcript ends or a speaker line or a blank line follows
TurnBlankText(k) ==
    /\ k + 2 <= Len(script)
    /\ IsOpenerLine(script[k])
    /\ LabelOf(script[k]) # <<>>
    /\ ~RejectedLabel(LabelOf(script[k]))
    /\ TextOf(script[k]) # <<>>
    /\ IsBlankLine(script[k + 1])
    /\ IsPlainLine(script[k + 2])
    /\ k + 3 <= Len(script) => (IsOpenerLine(script[k + 3]) \/ IsBlankLine(script[k + 3]))

\* C15 (as stated): a blank line closes the turn, and the lines after it up
\* to the next speaker line are attributed to nobody: in a transcript without
\* closing tag the utterances are those of the transcript without these lines.
C15_BlankLineEndsAttribution ==
    (Parsed /\ readable /\ ~HasClosingTag(script))
        => conversation = parse_script(TRUE, Content(DropAfterBlank(script, FALSE)))

\* C15 (amended): a blank line closes the turn as one utterance but the
\* speaker stays current: a plain line after the blank line is not appended
\* to the utterance already emitted, it is emitted as the next utterance, of
\* the same speaker.
C15_BlankLineKeepsSpeaker ==
    (Parsed /\ readable /\ ~HasClosingTag(script))
        => \A k \in 1..Len(script) :
              TurnBlankText(k)
                  => \E j \in 1..(Len(conversation) - 1) :
                        /\ conversation[j] =
                              [speaker |-> LabelOf(script[k]), text |-> TextOf(script[k])]
                        /\ conversation[j + 1] =
                              [speaker |-> LabelOf(script[k]),
                               text |-> Strip(LinePool[script[k + 2]])]

\* [A]: Hi, a blank line, then the line "more": two utterances of A
C15_Witness ==
    /\ Parsed
    /\ script = <<6, 2, 10>>
    /\ TurnBlankText(1)
    /\ conversation = <<A_Hi, [speaker |-> <<"A">>, text |-> <<"m","o","r","e">>]>>

----------------------------------------------------------------------------
(* Leading-content stripping *)

\* the text parse_script is left with after its two stripping steps
StrippedText(scr) == SkipToFirstDialogue(StripClosingTag(Content(scr)))

\* C16 (as stated): parsing the text that is left after the stripping steps
\* gives the same utterances as parsing the original text, for every text.
C16_StrippingIdempotent ==
    (Parsed /\ readable)
        => parse_script(TRUE, StrippedText(script)) = conversation

\* C16 (amended): parsing the text that is left after the stripping steps
\* gives the same utterances as parsing the original text when the original
\* text has at most one closing tag.
C16_StrippingIdempotentOneTag ==
    (Parsed /\ readable /\ Cardinality(ClosingTagStarts(Content(script))) <= 1)
        => parse_script(TRUE, StrippedText(script)) = conversation

\* Scenario B was parsed: its text has one closing tag, and the stripped
\* text is [A]: Hi / [B]: Hello
C16_Witness ==
    /\ Parsed
    /\ script = ScenarioB
    /\ Cardinality(ClosingTagStarts(Content(script))) = 1
    /\ StrippedText(script) = Content(<<6, 7>>)
    /\ StrippedText(script) # Content(script)
    /\ conversation = <<A_Hi, B_Hello>>

\* the text from the start of its first closing tag on
FromFirstTag(content) == SubSeq(content, Min(ClosingTagStarts(content)), Len(content))

\* C17: when the text has a closing tag, what precedes the first one has no
\* effect: the utterances are those of the text that starts at that tag.
\* Scenario B gives A: Hi, B: Hello, and a turn that precedes the tag is lost.
C17_TextBeforeTagDiscarded ==
    (Parsed /\ readable /\ HasClosingTag(script))
        => /\ conversation = parse_script(TRUE, FromFirstTag(Content(script)))
           /\ script = ScenarioB => conversation = <<A_Hi, B_Hello>>
           /\ script = <<6, 5, 7>> => conversation = <<B_Hello>>

\* [A]: Hi precedes the closing tag and [B]: Hello follows it: only B's
\* utterance was built
C17_Witness ==
    /\ Parsed
    /\ script = <<6, 5, 7>>
    /\ HasClosingTag(script)
    /\ FromFirstTag(Content(script)) # Content(script)
    /\ conversation = <<B_Hello>>

----------------------------------------------------------------------------
(* Parse failure *)

\* process_script is past its parsing step
PastParsing ==
    \/ pc \in {"ps_detect", "ps_generate", "ps_combining", "ps_combine",
               "ps_finish", "ps_except", "ps_return"}
    \/ Returned

\* C19: when parse_script gives no utterance, process_script returns False
\* right away: the snapshots it passed on are parsing and then error at step
\* parsing, nothing else; no TTS call is made and no scratch directory made.
C19_ParseFailureIsFatal ==
    (PastParsing /\ conversation = <<>>)
        => /\ ret = "False"
           /\ pc \in {"ps_return", "dummy", "done"}
           /\ ttsCalls = <<>>
           /\ ~scratchDir
           /\ segFiles = {}
           /\ caller = "route" =>
                 cbLog = << Snapshot("processing", "parsing", 10),
                            Snapshot("error", "parsing", 10) >>

\* a transcript without speaker line went through the route: process_script
\* returned False after the error snapshot of the parsing step
C19_Witness ==
    /\ caller = "route"
    /\ script = <<10, 10>>
    /\ pc = "ps_return"
    /\ conversation = <<>>
    /\ ret = "False"
    /\ cbLog[Len(cbLog)] = Snapshot("error", "parsing", 10)

----------------------------------------------------------------------------
(* The status of the stored snapshots *)

\* C20 (as stated): every snapshot stored for the podcast has status
\* processing, complete or error.
C20_StatusOneOfThree ==
    \A k \in 1..Len(written) :
        written[k].status \in {"processing", "complete", "error"}

\* C20 (amended): every snapshot stored for the podcast has status
\* initializing, processing, complete or error, and initializing is the
\* status of the first snapshot and of no other.
C20_StatusOneOfFour ==
    \A k \in 1..Len(written) :
        /\ written[k].status \in {"initializing", "processing", "complete", "error"}
        /\ written[k].status = "initializing" <=> k = 1

\* a run through the route has ended after process_script failed: snapshots
\* of all four statuses were stored
C20_Witness ==
    /\ caller = "route"
    /\ pc = "done"
    /\ ret = "False"
    /\ {written[k].status : k \in 1..Len(written)} =
          {"initializing", "processing", "complete", "error"}

----------------------------------------------------------------------------
(* Two requests at once *)

\* request r holds its scratch directory
HoldsDir(r) == runs[r].pc \in {"ps_generate", "ps_combining", "ps_combine", "ps_finish"}

CallsOf(r) == {runs[r].calls[k] : k \in 1..Len(runs[r].calls)}

\* the segment files request r has written itself
OwnFiles(r) ==
    {SegmentFile(c.idx, c.outcome) : c \in {d \in CallsOf(r) : d.outcome # "quota"}}

\* the utterances of request r whose TTS call gave audio, in call order
OwnOkIdx(r) ==
    LET ok == SelectSeq(runs[r].calls, LAMBDA c : c.outcome = "ok")
    IN  [k \in 1..Len(ok) |-> ok[k].idx]

\* the snapshot a request that has ended leaves when it is served alone
FinalAlone(r) ==
    IF runs[r].ret = "True"
    THEN Snapshot("complete", "finished", 100)
    ELSE Snapshot("complete", "dummy_audio", 100)

\* C18: two requests with different podcast_ids, interleaved in any way, do
\* not touch each other: each stores snapshots under its own key only, each
\* TTS call uses the voice its own assignment gives, each scratch directory
\* is the request's own and holds its own files only, and the segments
\* concatenated, the return value and the last snapshot are those the
\* request's own transcript and outcomes give when it runs alone.
C18_RunIsolation ==
    \A r \in RunIds :
        LET run == runs[r]
        IN  /\ \A p \in PodcastIds : \A k \in 1..Len(stored[p]) :
                  stored[p][k].by = r => p = run.podcast_id
            /\ stored[run.podcast_id] # <<>> =>
                  progress_store[run.podcast_id] =
                      stored[run.podcast_id][Len(stored[run.podcast_id])].info
            /\ \A c \in CallsOf(r) :
                  c.voice = VoiceFor(detect_speakers_and_assign_voices(run.listing), c.speaker)
            /\ HoldsDir(r) =>
                  /\ tmpdirs[run.dir].exists
                  /\ tmpdirs[run.dir].files = OwnFiles(r)
                  /\ \A s \in RunIds \ {r} : HoldsDir(s) => runs[s].dir # run.dir
            /\ run.concat # None => run.file_list = OwnOkIdx(r)
            /\ (run.ret # None /\ run.conversation # <<>>) =>
                  (run.ret = "True" <=> (OwnOkIdx(r) # <<>> /\ run.concat = "ok"))
            /\ run.pc = "done" => progress_store[run.podcast_id] = FinalAlone(r)

\* both requests are in the middle of generating segments of the same
\* transcript, each with a TTS call made, with different voice assignments
\* and different scratch directories
C18_Witness ==
    /\ \A r \in RunIds :
          /\ runs[r].pc = "ps_generate"
          /\ runs[r].calls # <<>>
          /\ runs[r].script = <<6, 7>>
    /\ runs[1].podcast_id # runs[2].podcast_id
    /\ runs[1].listing # runs[2].listing
    /\ runs[1].dir # runs[2].dir

----------------------------------------------------------------------------
(* The concatenation list *)

\* the file at a segment path exists, is not empty and is a .wav file
Concatenable(path) ==
    /\ path.ext = "wav"
    /\ \E f \in segFiles : f.idx = path.idx /\ f.ext = path.ext /\ f.size # "empty"

\* the segments a correct filter keeps, in the order of segment_paths
Kept == SelectSeq(segment_paths, Concatenable)

\* C21: the concatenation list holds exactly the segment paths whose file
\* exists, is not empty and ends in .wav, in order; the other paths are left
\* out and the run goes on. When nothing is left, ffmpeg is not run,
\* combine_audio_segments returns False and process_script ends with an error
\* snapshot of step combining.
C21_ConcatenationFilter ==
    /\ pc = "ps_finish" =>
          /\ file_list = [k \in 1..Len(Kept) |-> Kept[k].idx]
          /\ Kept = <<>> <=> concat = "not_run"
          /\ concat = "not_run" => ~success
    /\ (pc = "ps_return" /\ concat = "not_run") =>
          /\ ret = "False"
          /\ caller = "route" => cbLog[Len(cbLog)] = Snapshot("error", "combining", 80)

\* a run in which one call gave audio, one gave an empty .wav file and one
\* failed and left a placeholder: only the first is concatenated
C21_Witness ==
    /\ pc = "ps_finish"
    /\ Len(segment_paths) = 3
    /\ Len(file_list) = 1
    /\ \E f \in segFiles : f.ext = "wav" /\ f.size = "empty"
    /\ \E f \in segFiles : f.ext = "mp3"
    /\ concat = "ok"

----------------------------------------------------------------------------
(* Placeholders and the numbering of the segments *)

\* the scratch directory holds the files of this run
InScratch == pc \in {"ps_generate", "ps_combining", "ps_combine", "ps_finish"}

\* C22: a TTS call that fails with an ordinary error leaves a zero-length
\* placeholder with the number of its utterance and the loop goes on with
\* the next utterance; entry k of segment_paths (from 0) is the file
\* numbered k, so the numbers are contiguous, without gap or duplicate.
C22_PlaceholdersKeepNumbering ==
    /\ \A k \in 1..Len(segment_paths) : segment_paths[k].idx = k - 1
    /\ \A k \in 1..Len(ttsCalls) :
          /\ ttsCalls[k].idx = k - 1
          /\ ttsCalls[k].outcome = "error" =>
                /\ Len(segment_paths) >= k
                /\ segment_paths[k] = [idx |-> k - 1, ext |-> "mp3"]
                /\ InScratch => [idx |-> k - 1, ext |-> "mp3", size |-> "empty"] \in segFiles
                /\ k < Len(conversation) => (pc = "ps_generate" \/ Len(ttsCalls) > k)

\* the first of three calls failed with an ordinary error, the next two gave
\* audio: the placeholder is entry 0 and the segments are entries 1 and 2
C22_Witness ==
    /\ pc = "ps_combining"
    /\ Len(ttsCalls) = 3
    /\ ttsCalls[1].outcome = "error"
    /\ ttsCalls[2].outcome = "ok"
    /\ ttsCalls[3].outcome = "ok"
    /\ segment_paths = << [idx |-> 0, ext |-> "mp3"], [idx |-> 1, ext |-> "wav"],
                          [idx |-> 2, ext |-> "wav"] >>

----------------------------------------------------------------------------
(* The order of the TTS calls *)

\* C23: every TTS call is made with the voice map complete and, when a
\* callback is given, after the audio_generation snapshot and before the
\* combining snapshot; the calls go through the utterances in increasing
\* order, one call per utterance at most.
C23_SequentialRendering ==
    /\ \A k \in 1..Len(ttsCalls) :
          /\ ttsCalls[k].idx = k - 1
          /\ DOMAIN speaker_voice_mapping = unique_speakers(conversation)
          /\ ttsCalls[k].voice = speaker_voice_mapping[ttsCalls[k].speaker]
          /\ caller = "route" =>
                /\ ttsCalls[k].cbAtCall = 3
                /\ cbLog[3].step = "audio_generation"
    /\ Len(ttsCalls) <= Len(conversation)
    /\ \A k \in 1..Len(cbLog) :
          cbLog[k] = Snapshot("processing", "combining", 80) =>
              /\ k = 4
              /\ pc # "ps_generate"
              /\ ttsCalls # <<>>

\* three calls were made through the route, in order, and the combining
\* snapshot came after them
C23_Witness ==
    /\ caller = "route"
    /\ pc = "ps_combine"
    /\ [k \in 1..Len(ttsCalls) |-> ttsCalls[k].idx] = <<0, 1, 2>>
    /\ Cardinality(unique_speakers(conversation)) = 3
    /\ cbLog[Len(cbLog)].step = "combining"

----------------------------------------------------------------------------
(* The check of the output file *)

\* ffmpeg exited with status 0
ToolSucceeded == concat \in {"ok", "empty", "missing"}

\* C24: combine_audio_segments returns True only when ffmpeg exited with
\* status 0 and the file at the path ffmpeg was given exists and is not
\* empty; it returns False when ffmpeg exited with status 0 and the file is
\* missing or empty, and False, on the normal path, when ffmpeg failed.
C24_OutputVerified ==
    pc = "ps_finish" =>
        /\ success => (ToolSucceeded /\ fs["wav"] \notin {"absent", "empty"})
        /\ (ToolSucceeded /\ fs["wav"] \in {"absent", "empty"}) => ~success
        /\ concat = "fail" => ~success
        /\ concat = "ok" => success

\* ffmpeg exited with status 0 and left an empty file: the result is False
C24_Witness ==
    /\ pc = "ps_finish"
    /\ concat = "empty"
    /\ fs["wav"] = "empty"
    /\ ~success

----------------------------------------------------------------------------
(* The file list of combine_audio_segments *)

\* C25: when combine_audio_segments has returned, the temporary file list it
\* made for ffmpeg is deleted, whatever the return path.
C25_FileListDeleted ==
    pc \in {"ps_finish", "ps_return"} => ~tmpList

----------------------------------------------------------------------------
(* generate_audio_segments called on its own: a client constructs a
   ScriptProcessor, may call detect_speakers_and_assign_voices on any
   conversation, and calls generate_audio_segments on a conversation of its
   choice. The voice map is then whatever the constructor or the last
   detect_speakers_and_assign_voices call left. *)

\* the transcripts of the conversations the client holds
DirectScripts ==
    {<<6>>, <<7>>, <<6, 7>>, <<7, 9>>, ThreeSpeakers,
     <<26>>, <<27>>, <<26, 2>>, <<26, 7>>, <<7, 26>>, <<26, 10>>,
     <<26, 2, 10>>, <<27, 10, 7>>, <<7, 27, 10>>}

\* script_processor.py 44-65: a new ScriptProcessor; speaker_voice_mapping = {}
InitDirect ==
    /\ NoRuns
    /\ caller = "direct"
    /\ script \in DirectScripts
    /\ readable = TRUE
    /\ outExt = "wav"
    /\ fs = [e \in {"mp3", "wav"} |-> "absent"]
    /\ pc = "direct"
    /\ progress_data = None
    /\ written = <<>>
    /\ cbLog = <<>>
    /\ conversation = parse_script(TRUE, Content(script))
    /\ speaker_voice_mapping = <<>>
    /\ i = 0
    /\ segment_paths = <<>>
    /\ segFiles = {}
    /\ ttsCalls = <<>>
    /\ scratchDir = FALSE
    /\ file_list = <<>>
    /\ tmpList = FALSE
    /\ concat = None
    /\ success = FALSE
    /\ ret = None
    /\ scriptTmp = FALSE
    /\ audioUrl = None

\* script_processor.py 67-111, called on the conversation of transcript other
DirectDetect(other) ==
    /\ pc = "direct"
    /\ \E speakers \in ListingsOf(parse_script(TRUE, Content(other))) :
          speaker_voice_mapping' = detect_speakers_and_assign_voices(speakers)
    /\ UNCHANGED <<inputVars, routeVars, conversation, genVars, scratchDir, combVars,
                   pc, ret, scriptTmp, audioUrl>>

\* script_processor.py 263-266: os.makedirs(output_dir), segment_paths = []
DirectGenerate ==
    /\ pc = "direct"
    /\ pc' = "ps_generate"
    /\ scratchDir' = TRUE
    /\ i' = 0
    /\ segment_paths' = <<>>
    /\ UNCHANGED <<inputVars, routeVars, conversation, speaker_voice_mapping, segFiles,
                   ttsCalls, combVars, ret, scriptTmp, audioUrl>>

NextDirect ==
    \/ \E other \in DirectScripts : DirectDetect(other)
    \/ DirectGenerate
    \/ \E outcome \in TTSOutcomes : GenSegment(outcome)

SpecDirect == InitDirect /\ [][NextDirect]_vars

----------------------------------------------------------------------------
(* The default voice *)

\* the ten voice ids of available_voices
PaletteIds == {Palette(v) : v \in 0..(Len(available_voices) - 1)}

\* C26: a voice map made for one distinct speaker gives that speaker
\* palette[0]; every TTS call carries a voice id of the ten-entry palette: the
\* map's voice when the speaker is a key of the map, palette[0] when not.
C26_DefaultVoice ==
    /\ Cardinality(DOMAIN speaker_voice_mapping) = 1 =>
          \A s \in DOMAIN speaker_voice_mapping : speaker_voice_mapping[s] = Palette(0)
    /\ \A k \in 1..Len(ttsCalls) :
          LET c == ttsCalls[k]
          IN  /\ c.voice \in PaletteIds
              /\ c.speaker = conversation[c.idx + 1].speaker
              /\ c.speaker \notin DOMAIN speaker_voice_mapping => c.voice = Palette(0)
              /\ c.speaker \in DOMAIN speaker_voice_mapping =>
                    c.voice = speaker_voice_mapping[c.speaker]

\* the map was made for [A] and [B]; [A], [B] and [C] are rendered, [B] with
\* the second voice of the contrast pair and [C], not a key, with palette[0]
C26_Witness ==
    /\ DOMAIN speaker_voice_mapping = {A_Hi.speaker, B_Hello.speaker}
    /\ speaker_voice_mapping[B_Hello.speaker] = Palette(5)
    /\ Len(ttsCalls) = 3
    /\ ttsCalls[2].voice = Palette(5)
    /\ ttsCalls[3].speaker \notin DOMAIN speaker_voice_mapping
    /\ ttsCalls[3].voice = Palette(0)

----------------------------------------------------------------------------
(* Comment lines *)

\* the transcript without the lines whose numbers are in ids
WithoutLines(scr, ids) == SelectSeq(scr, LAMBDA id : id \notin ids)

A_HiMore == [speaker |-> <<"A">>, text |-> <<"H","i"," ","m","o","r","e">>]

\* C27 (as stated): a line that starts with '#', '//' or '/*' is inert
\* wherever it stands: the utterances are those of the transcript without its
\* comment lines.
C27_CommentsInert ==
    (Parsed /\ readable)
        => conversation = parse_script(TRUE, Content(WithoutLines(script, {22, 23, 24})))

\* C27 (amended): a comment line in which no closing tag begins or ends is
\* inert wherever it stands, inside or outside a turn: the utterances are
\* those of the transcript without these lines, so such a line starts no
\* turn, closes none and adds no text.
C27_TagFreeCommentsInert ==
    (Parsed /\ readable)
        => /\ conversation = parse_script(TRUE, Content(WithoutLines(script, {22, 23})))
           /\ script = <<6, 23, 10>> => conversation = <<A_HiMore>>
           /\ script = <<6, 22, 7>> => conversation = <<A_Hi, B_Hello>>

\* "// aside: remark" stood between [A]: Hi and the continuation line "more":
\* one utterance of A, "Hi more"
C27_Witness ==
    /\ Parsed
    /\ script = <<6, 23, 10>>
    /\ WithoutLines(script, {22, 23}) = <<6, 10>>
    /\ conversation = <<A_HiMore>>

----------------------------------------------------------------------------
(* Unbracketed speaker lines with several colons *)

\* the first colon of a line
FirstColon(line) == Min({k \in 1..Len(line) : line[k] = ":"})

\* line number id is an unbracketed speaker line: it has a colon and no
\* bracket before its first colon
IsUnbracketedOpener(id) ==
    LET l == Strip(LinePool[id])
    IN  /\ \E k \in 1..Len(l) : l[k] = ":"
        /\ ~IsCommentLine(l)
        /\ FirstColon(l) > 1
        /\ \A k \in 1..(FirstColon(l) - 1) : l[k] \notin {"[", "]"}

Sam_NoteBringWater ==
    [speaker |-> <<"S","a","m">>,
     text |-> <<"N","o","t","e",":"," ","b","r","i","n","g"," ","w","a","t","e","r">>]

\* C28: an unbracketed speaker line is split at its first colon: the label is
\* what precedes it and the text all that follows it, further colons
\* included, so no label holds a colon. "Sam: Note: bring water" alone gives
\* one utterance of Sam, "Note: bring water".
C28_LabelEndsAtFirstColon ==
    (Parsed /\ readable /\ ~HasClosingTag(script))
        => /\ \A k \in 1..Len(script) :
                 IsUnbracketedOpener(script[k]) =>
                     LET l == Strip(LinePool[script[k]])
                     IN  /\ LabelOf(script[k]) = Strip(SubSeq(l, 1, FirstColon(l) - 1))
                         /\ TextOf(script[k]) = Strip(SubSeq(l, FirstColon(l) + 1, Len(l)))
           /\ \A k \in 1..Len(conversation) :
                 \A j \in 1..Len(conversation[k].speaker) : conversation[k].speaker[j] # ":"
           /\ script = <<25>> => conversation = <<Sam_NoteBringWater>>

----------------------------------------------------------------------------
(* Utterances without speaker or without text *)

\* the transcript without the turns that have nothing to say: a speaker line
\* with an empty label and the lines after it up to the next speaker line,
\* and a speaker line without text that the next speaker line or the end of
\* the transcript follows at once; with atBlank, also one that a blank line
\* follows at once
RECURSIVE DropEmptyTurns(_, _, _)
DropEmptyTurns(scr, dropping, atBlank) ==
    IF scr = <<>> THEN <<>>
    ELSE IF IsOpenerLine(Head(scr))
    THEN IF LabelOf(Head(scr)) = <<>>
         THEN DropEmptyTurns(Tail(scr), TRUE, atBlank)
         ELSE IF /\ TextOf(Head(scr)) = <<>>
                 /\ \/ Tail(scr) = <<>>
                    \/ IsOpenerLine(Head(Tail(scr)))
                    \/ atBlank /\ IsBlankLine(Head(Tail(scr)))
         THEN DropEmptyTurns(Tail(scr), FALSE, atBlank)
         ELSE <<Head(scr)>> \o DropEmptyTurns(Tail(scr), FALSE, atBlank)
    ELSE IF dropping
    THEN DropEmptyTurns(Tail(scr), TRUE, atBlank)
    ELSE <<Head(scr)>> \o DropEmptyTurns(Tail(scr), FALSE, atBlank)

A_More == [speaker |-> <<"A">>, text |-> <<"m","o","r","e">>]

\* every utterance has a speaker label and a text that are not empty, and
\* every TTS call is given the text of its utterance
NothingEmpty ==
    /\ \A k \in 1..Len(conversation) :
          conversation[k].speaker # <<>> /\ conversation[k].text # <<>>
    /\ \A k \in 1..Len(ttsCalls) :
          /\ ttsCalls[k].transcript # <<>>
          /\ ttsCalls[k].transcript = conversation[ttsCalls[k].idx + 1].text

\* C29 (as stated): every utterance has a speaker label and a text that are
\* not empty, and so has the transcript of every TTS call; a speaker line with
\* an empty label, and a speaker line without text that the next speaker
\* line, a blank line or the end of the transcript follows at once, give no
\* utterance: the utterances are those of the transcript without these turns.
C29_EmptyTurnsGiveNothing ==
    /\ NothingEmpty
    /\ caller = "direct" =>
          conversation = parse_script(TRUE, Content(DropEmptyTurns(script, FALSE, TRUE)))

\* C29 (amended): every utterance has a speaker label and a text that are not
\* empty, and so has the transcript of every TTS call. A speaker line with an
\* empty label, and a speaker line without text that the next speaker line or
\* the end of the transcript follows at once, give no utterance. A speaker
\* line without text that a blank line follows gives none at the blank line,
\* but its speaker stays current: a plain line after the blank line is
\* emitted as that speaker's utterance.
C29_UtterancesNonEmpty ==
    /\ NothingEmpty
    /\ caller = "direct" =>
          /\ conversation = parse_script(TRUE, Content(DropEmptyTurns(script, FALSE, FALSE)))
          /\ script \in {<<26>>, <<27>>, <<26, 2>>} => conversation = <<>>
          /\ script \in {<<26, 7>>, <<7, 26>>, <<27, 10, 7>>, <<7, 27, 10>>}
                => conversation = <<B_Hello>>
          /\ script = <<26, 2, 10>> => conversation = <<A_More>>

\* "[]: text", "more", "[B]: Hello": the first two lines gave no utterance
\* and the one TTS call was given "Hello"
C29_Witness ==
    /\ script = <<27, 10, 7>>
    /\ DropEmptyTurns(script, FALSE, FALSE) = <<7>>
    /\ conversation = <<B_Hello>>
    /\ Len(ttsCalls) = 1
    /\ ttsCalls[1].transcript = B_Hello.text

----------------------------------------------------------------------------
(* The podcast store: data/podcasts.json, read and written whole by every
   store function. Two calls are under way at once, each in its own thread of
   the server: update_podcast_audio at the end of generate_audio_route,
   toggle_podcast_listened and update_podcast_title from their routes. *)

StoreOpIds == {1, 2}

StoreFns == {"update_podcast_audio", "toggle_podcast_listened", "update_podcast_title"}

\* the ids the calls are made with: the two stored podcasts and one that is
\* not in the store
StoreCallIds == PodcastIds \cup {"podcast-3"}

\* the store before the calls: no audio yet, and no "listened" field
InitialPodcasts ==
    [p \in PodcastIds |-> [audioUrl |-> None, title |-> "old title", listened |-> "missing"]]

\* the file holding the list podcasts
Holding(podcasts) == [state |-> "json", podcasts |-> podcasts]

\* the file between open(PODCASTS_DATA_PATH, "w") and the end of json.dump
Truncated == [state |-> "truncated", podcasts |-> <<>>]

\* the file after two writers wrote through handles opened at the same time
Corrupt == [state |-> "corrupt", podcasts |-> <<>>]

\* podcasts.py 14-24: json.load raises on an empty or broken file and the
\* handler returns []
load_podcasts(file) == IF file.state = "json" THEN file.podcasts ELSE <<>>

\* podcasts.py 250-254: "listened" is added as False when missing, then negated
Toggled(listened) == IF listened = "True" THEN "False" ELSE "True"

\* audio_generation.py 88, 130: the url of the audio file, a fresh file name
\* for each request
AudioUrlOf(podcast_id) ==
    IF podcast_id = "podcast-1" THEN "/static/audio/podcast-1.wav"
    ELSE IF podcast_id = "podcast-2" THEN "/static/audio/podcast-2.wav"
    ELSE "/static/audio/podcast-3.wav"

\* podcasts.py 205, 235, 250-254: what each function changes in the podcast
Modified(fn, podcast_id, podcast) ==
    IF fn = "update_podcast_audio"
    THEN [podcast EXCEPT !.audioUrl = AudioUrlOf(podcast_id)]
    ELSE IF fn = "update_podcast_title"
    THEN [podcast EXCEPT !.title = "new title"]
    ELSE [podcast EXCEPT !.listened = Toggled(@)]

\* a whole call on the list podcasts, nothing else running: the list it saves
Applied(fn, podcast_id, podcasts) ==
    IF podcast_id \in DOMAIN podcasts
    THEN [podcasts EXCEPT ![podcast_id] = Modified(fn, podcast_id, @)]
    ELSE podcasts

NewStoreOp(fn, podcast_id) ==
    [fn |-> fn, podcast_id |-> podcast_id, pc |-> "start", podcasts |-> <<>>, result |-> None]

InitStore ==
    /\ podcasts_json = Holding(InitialPodcasts)
    /\ store_ops \in [StoreOpIds -> {NewStoreOp(fn, id) : fn \in StoreFns, id \in StoreCallIds}]
    /\ runs = <<>>
    /\ progress_store = <<>>
    /\ stored = <<>>
    /\ instances = <<>>
    /\ tmpdirs = <<>>
    /\ caller = "route"
    /\ script = <<>>
    /\ readable = TRUE
    /\ outExt = "wav"
    /\ fs = [e \in {"mp3", "wav"} |-> "absent"]
    /\ pc = "idle"
    /\ progress_data = None
    /\ written = <<>>
    /\ cbLog = <<>>
    /\ conversation = <<>>
    /\ speaker_voice_mapping = <<>>
    /\ i = 0
    /\ segment_paths = <<>>
    /\ segFiles = {}
    /\ ttsCalls = <<>>
    /\ scratchDir = FALSE
    /\ file_list = <<>>
    /\ tmpList = FALSE
    /\ concat = None
    /\ success = FALSE
    /\ ret = None
    /\ scriptTmp = FALSE
    /\ audioUrl = None

\* podcasts.py 198-205 (228-235, 243-254): _load_podcasts(), the search for
\* the podcast, `return None` when it is not there, the change of the
\* podcast in the local list
StoreLoad(o) ==
    /\ store_ops[o].pc = "start"
    /\ LET op == store_ops[o]
           podcasts == load_podcasts(podcasts_json)
       IN  store_ops' =
               IF op.podcast_id \in DOMAIN podcasts
               THEN [store_ops EXCEPT ![o].podcasts = Applied(op.fn, op.podcast_id, podcasts),
                                      ![o].pc = "modified"]
               ELSE [store_ops EXCEPT ![o].podcasts = podcasts,
                                      ![o].pc = "done"]
    /\ UNCHANGED <<soloVars, concVars, podcasts_json>>

\* podcasts.py 33: open(PODCASTS_DATA_PATH, "w") empties the file
StoreOpen(o) ==
    /\ store_ops[o].pc = "modified"
    /\ podcasts_json' = Truncated
    /\ store_ops' = [store_ops EXCEPT ![o].pc = "writing"]
    /\ UNCHANGED <<soloVars, concVars>>

\* podcasts.py 34-35: json.dump writes the local list from offset 0 and the
\* file is closed. When the other call has written since this one opened the
\* file, what is left is this list or, when the other text was longer, this
\* list followed by the other's tail.
StoreDump(o, clean) ==
    /\ store_ops[o].pc = "writing"
    /\ clean \/ podcasts_json # Truncated
    /\ podcasts_json' = IF clean THEN Holding(store_ops[o].podcasts) ELSE Corrupt
    /\ store_ops' = [store_ops EXCEPT ![o].pc = "done", ![o].result = "podcast"]
    /\ UNCHANGED <<soloVars, concVars>>

NextStore ==
    \E o \in StoreOpIds :
        \/ StoreLoad(o)
        \/ StoreOpen(o)
        \/ \E clean \in BOOLEAN : StoreDump(o, clean)

SpecStore == InitStore /\ [][NextStore]_vars

----------------------------------------------------------------------------
(* Lost updates *)

StoreQuiet == \A o \in StoreOpIds : store_ops[o].pc = "done"

\* the store after the two calls, one after the other, first o then the other
Serial(o, other) ==
    Applied(store_ops[other].fn, store_ops[other].podcast_id,
            Applied(store_ops[o].fn, store_ops[o].podcast_id, InitialPodcasts))

\* C30: when the two calls have returned, the store holds both changes: it is
\* what the two calls leave when one runs after the other.
C30_NoLostUpdate ==
    StoreQuiet => podcasts_json \in {Holding(Serial(1, 2)), Holding(Serial(2, 1))}

============================================================================
